---- MODULE Spec2Model ----
(***************************************************************************)
(* Model of the BHRRC scraper (src/bhrrc_scraper.py): the row loop of      *)
(* __main__, enrich_row_from_url, and the document text resolver            *)
(* extract_response_text_preferring_pdf with find_first_pdf_url and        *)
(* download_pdf_text.                                                       *)
(*                                                                         *)
(* Strings are sequences of atoms.  An atom is a run of characters that    *)
(* the code never splits: a URL scheme+host ("https://site"), a slash, a   *)
(* path segment, an extension (".pdf", ".PDF"), a word of text, or one of  *)
(* the whitespace runs "<sp>", "<nl>", "<ff>".  What the atoms leave out:   *)
(* a stop phrase or ".pdf" split over two strings, URL normalisation of    *)
(* "..", JSON escapes in the raw markup.  The collaborators (browser, HTTP *)
(* session, pdfminer, pypdf, pdf2image/tesseract) answer                   *)
(* nondeterministically; the reader yields rows one at a time.             *)
(*                                                                         *)
(* The specifications: Spec is the scraper run over the rows of a CSV;     *)
(* SpecTwice is the scraper run twice over the same row with the answers   *)
(* of the collaborators fixed before the run; SpecLlm is call_llm of       *)
(* src/analyse_bhrrc.py (the retry loop around the chat completion         *)
(* request), with durations in whole seconds; SpecMain is main of the same *)
(* file, calling call_llm for every row; SpecTranslate is the translation  *)
(* script src/code/translator.py; SpecNarr is the loop of                  *)
(* src/code/nlp_based_narrative_extraction.py; SpecJson is                 *)
(* _json_from_model_text of src/code/analyse_coc.py.  Each program has its *)
(* own variables; while one runs, the variables of the others keep their   *)
(* idle values.                                                            *)
(***************************************************************************)
EXTENDS Integers, Sequences, FiniteSets, TLC

(* ---- bounds ---------------------------------------------------------- *)
MaxRows == 2
MaxPages == 2
\* the largest MAX_RETRIES and the largest RATE_LIMIT_SLEEP (seconds) tried
MaxRetries == 3
MaxSleep == 2
\* the longest varied head of the data frame given to the translation script
MaxHead == 2
\* the most rows the input file of the LLM pipeline holds
MaxLoaded == 2
\* the most documents the narrative extraction is given
MaxDocs == 3
\* the longest model text given to _json_from_model_text, in characters
MaxText == 6

(* ---- constants of the programs ---------------------------------------- *)
\* translator.py: texts per call of the translation API, characters per
\* chunk, attempts per batch, and the 1.5 seconds of the backoff counted in
\* half seconds
BatchSize == 10
MaxChars == 3500
DeeplAttempts == 4
BackoffHalfSeconds == 3

(* ---- strings --------------------------------------------------------- *)
WS == {"<sp>", "<nl>", "<ff>"}

RECURSIVE LStrip(_)
LStrip(s) == IF s # <<>> /\ Head(s) \in WS THEN LStrip(Tail(s)) ELSE s

RECURSIVE RStrip(_)
RStrip(s) ==
  IF s # <<>> /\ s[Len(s)] \in WS THEN RStrip(SubSeq(s, 1, Len(s) - 1)) ELSE s

Strip(s) == RStrip(LStrip(s))

LowerAtom(a) ==
  CASE a = ".PDF" -> ".pdf"
    [] a = ".Pdf" -> ".pdf"
    [] a = "Source" -> "source"
    [] a = "downloadUrl" -> "downloadurl"
    [] a = "TIMELINE" -> "timeline"
    [] a = "Timeline" -> "timeline"
    [] a = "Latest news" -> "latest news"
    [] a = "Company Responses" -> "company responses"
    [] a = "This is a response to" -> "this is a response to"
    [] OTHER -> a

Lower(s) == [k \in 1..Len(s) |-> LowerAtom(s[k])]

\* ".pdf" in s
HasPdf(s) == \E k \in 1..Len(s) : s[k] = ".pdf"

\* s.endswith(".pdf")
EndsPdf(s) == s # <<>> /\ s[Len(s)] = ".pdf"

RECURSIVE Join(_, _)
Join(sep, parts) ==
  IF parts = <<>> THEN <<>>
  ELSE IF Len(parts) = 1 THEN parts[1]
  ELSE parts[1] \o sep \o Join(sep, Tail(parts))

(* ---- urllib.parse.urljoin ------------------------------------------- *)
Schemes == {"https://site", "https://cdn"}

IsAbsolute(u) == u # <<>> /\ u[1] \in Schemes

RECURSIVE DirOf(_)
\* the base URL up to and including its last slash
DirOf(b) ==
  IF b = <<>> THEN <<>>
  ELSE IF b[Len(b)] = "/" THEN b
  ELSE DirOf(SubSeq(b, 1, Len(b) - 1))

urljoin(base, u) ==
  IF u = <<>> THEN base
  ELSE IF u[1] \in Schemes THEN u
  ELSE IF u[1] = "/" THEN <<base[1]>> \o u
  ELSE DirOf(base) \o u

(* ---- the parsed page (BeautifulSoup tree) ---------------------------- *)
\* A node is an element (tag, class set, optional href, children) or a
\* NavigableString (tag "#text", one atom s).
Txt(a) == [tag |-> "#text", cls |-> {}, hasHref |-> FALSE, href |-> <<>>, s |-> a, kids |-> <<>>]
El(t, kids) == [tag |-> t, cls |-> {}, hasHref |-> FALSE, href |-> <<>>, s |-> "", kids |-> kids]
Div(cls, kids) == [tag |-> "div", cls |-> cls, hasHref |-> FALSE, href |-> <<>>, s |-> "", kids |-> kids]
Ref(t, cls, href, kids) == [tag |-> t, cls |-> cls, hasHref |-> TRUE, href |-> href, s |-> "", kids |-> kids]

RECURSIVE Flatten(_)
\* the nodes of a forest in document order
Flatten(ns) ==
  IF Len(ns) = 0 THEN <<>>
  ELSE <<ns[1]>> \o Flatten(ns[1].kids) \o Flatten(Tail(ns))

IsString(n) == n.tag = "#text"
NonBlank(n) == IsString(n) /\ n.s \notin WS

\* the stripped, non-empty strings below the nodes ns, in document order
Strings(ns) ==
  LET f == SelectSeq(Flatten(ns), NonBlank) IN [k \in 1..Len(f) |-> <<f[k].s>>]

\* Tag.get_text(sep, strip=True)
get_text(n, sep) == Join(sep, Strings(n.kids))

NL == <<"<nl>">>
SP == <<"<sp>">>
NLNL == <<"<nl>", "<nl>">>

(* ---- find_first_pdf_url ---------------------------------------------- *)
\* The result of a call: a value (kind "url"), None (kind "none") or an
\* exception leaving the function (kind "raise").
Url(u) == [kind |-> "url", url |-> u]
None == [kind |-> "none", url |-> <<>>]
Raise == [kind |-> "raise", url |-> <<>>]

\* s.select("a[href],link[href]")
IsLink(n) == n.tag \in {"a", "link"} /\ n.hasHref
Links(page) == SelectSeq(Flatten(page.dom), IsLink)

\* the test the anchor scan applies to a stripped href
HrefEndsPdf(h) == EndsPdf(Lower(h))
HrefIsPdf(h) == HasPdf(Lower(h))

LinkIsPdf(n) == HrefIsPdf(Strip(n.href))

\* lines 61-62: the first a[href]/link[href] in document order whose href
\* passes the test
AnchorScan(page, base) ==
  LET hits == SelectSeq(Links(page), LinkIsPdf)
  IN  IF hits # <<>> THEN Url(urljoin(base, Strip(hits[1].href))) ELSE None

\* lines 63-64: the dict d read from script#pageAsDataJSON; any failure
\* (no script, no string, invalid JSON) gives {}.  json.loads of a valid
\* document that is no object gives a non-dict value.
JsonKeys == <<"source", "downloadUrl", "download_url", "pdf", "url", "file">>
EmptyStr == [t |-> "str", s |-> <<>>]

IsDict(data) == data.kind = "dict"
IsNonDict(data) == data.kind = "list"

\* d.get(k, "")
DictGet(data, k) ==
  LET at == {n \in 1..Len(data.pairs) : data.pairs[n].k = k}
  IN  IF ~IsDict(data) \/ at = {} THEN EmptyStr
      ELSE data.pairs[CHOOSE n \in at : \A m \in at : m <= n].v

RECURSIVE JsonScanFrom(_, _, _)
\* lines 65-67, from the n-th key on
JsonScanFrom(data, base, n) ==
  IF n > Len(JsonKeys) THEN None
  ELSE IF IsNonDict(data) THEN Raise
  ELSE LET v == DictGet(data, JsonKeys[n])
       IN  IF v.t # "str" THEN Raise
           ELSE IF HasPdf(Lower(v.s)) THEN Url(urljoin(base, v.s))
           ELSE JsonScanFrom(data, base, n + 1)

JsonScan(page, base) == JsonScanFrom(page.data, base, 1)

\* line 68: the regular expression over the raw markup; it sees every
\* "key": "value" pair of the markup text, in text order
RegexKeys == {"source", "url", "downloadurl", "download_url", "pdf"}
RawPairs(page) == page.data.pairs \o page.inline

RegexMatches(pr) ==
  /\ LowerAtom(pr.k) \in RegexKeys
  /\ pr.v.t = "str"
  /\ \E n \in 2..Len(pr.v.s) : LowerAtom(pr.v.s[n]) = ".pdf"

RegexScan(page, base) ==
  LET hits == SelectSeq(RawPairs(page), RegexMatches)
  IN  IF hits # <<>> THEN Url(urljoin(base, hits[1].v.s)) ELSE None

find_first_pdf_url(page, base) ==
  LET a == AnchorScan(page, base)
      d == JsonScan(page, base)
  IN  IF a.kind # "none" THEN a
      ELSE IF d.kind # "none" THEN d
      ELSE RegexScan(page, base)

(* ---- HTML extraction (lines 154-178) -------------------------------- *)
\* STOP (line 164), case-insensitive, searched in a node's text
StopWords == {"this is a response to", "timeline", "latest news", "company responses"}
StopSearch(n) == \E k \in 1..Len(Strings(n.kids)) : LowerAtom(Strings(n.kids)[k][1]) \in StopWords

\* soup.select("div.block.html-block")
IsHtmlBlock(n) == n.tag = "div" /\ {"block", "html-block"} \subseteq n.cls
HasText(n) == ~IsString(n) /\ Strings(n.kids) # <<>>
IsFilledBlock(n) == IsHtmlBlock(n) /\ HasText(n)

\* lines 158-161
BlockTexts(page) ==
  LET bs == SelectSeq(Flatten(page.dom), IsFilledBlock)
  IN  [k \in 1..Len(bs) |-> get_text(bs[k], NL)]

\* soup.find("h1") and the nodes after it under the same parent
NoH1 == [found |-> FALSE, sibs |-> <<>>]
RECURSIVE FindH1(_)
FindH1(ns) ==
  IF Len(ns) = 0 THEN NoH1
  ELSE IF ns[1].tag = "h1" THEN [found |-> TRUE, sibs |-> Tail(ns)]
  ELSE LET r == FindH1(ns[1].kids)
       IN  IF r.found THEN r ELSE FindH1(Tail(ns))

\* lines 174-176: node.find_all(["p","li","blockquote"], recursive=True)
IsItem(n) == n.tag \in {"p", "li", "blockquote"}
IsFilledItem(n) == IsItem(n) /\ HasText(n)
ItemTexts(n) ==
  LET ts == SelectSeq(Flatten(n.kids), IsFilledItem)
  IN  [k \in 1..Len(ts) |-> get_text(ts[k], SP)]

RECURSIVE CollectUntilStop(_)
\* lines 168-177: the loop over the siblings after the h1
CollectUntilStop(sibs) ==
  IF Len(sibs) = 0 THEN <<>>
  ELSE IF IsString(sibs[1]) THEN CollectUntilStop(Tail(sibs))
  ELSE IF StopSearch(sibs[1]) THEN <<>>
  ELSE ItemTexts(sibs[1]) \o CollectUntilStop(Tail(sibs))

\* line 167: every p of the page
IsP(n) == n.tag = "p"
TopLevelPTexts(page) ==
  LET ps == SelectSeq(page.dom, IsP)
  IN  [k \in 1..Len(ps) |-> get_text(ps[k], SP)]
AllPTexts(page) ==
  LET ps == SelectSeq(Flatten(page.dom), IsP)
  IN  [k \in 1..Len(ps) |-> get_text(ps[k], SP)]

\* lines 160, 166, 169: which of the three ways the HTML fallback takes
HtmlBranchWithoutContainers(page) ==
  IF ~FindH1(page.dom).found THEN "all_p" ELSE "after_h1"
HtmlBranch(page) ==
  IF BlockTexts(page) # <<>> THEN "blocks"
  ELSE IF ~FindH1(page.dom).found THEN "all_p"
  ELSE "after_h1"

\* lines 155-178
HtmlText(page) ==
  LET texts == BlockTexts(page)
      h1 == FindH1(page.dom)
  IN  CASE HtmlBranch(page) = "blocks" -> Strip(Join(NLNL, texts))
        [] HtmlBranch(page) = "all_p" -> Join(NLNL, AllPTexts(page))
        [] OTHER -> Strip(Join(NLNL, CollectUntilStop(h1.sibs)))

(* ---- find_parent_story_url_from_html (lines 129-137) ----------------- *)
IsResponseTo(n) == IsString(n) /\ LowerAtom(n.s) = "this is a response to"

find_parent_story_url_from_html(response_url, page) ==
  LET flat == Flatten(page.dom)
      at == {k \in 1..Len(flat) : IsResponseTo(flat[k])}
      anchor == CHOOSE k \in at : \A m \in at : k <= m
      after == {k \in 1..Len(flat) : k > anchor /\ flat[k].tag = "a"}
      link == flat[CHOOSE k \in after : \A m \in after : k <= m]
  IN  IF at = {} THEN None
      ELSE IF after = {} THEN None
      ELSE IF ~link.hasHref \/ link.href = <<>> THEN None
      ELSE Url(urljoin(response_url, link.href))

(* ---- inputs ---------------------------------------------------------- *)
PageUrl == <<"https://site", "/", "en", "/", "response">>

HRel == <<"files", "/", "a", ".pdf">>
HRootUpper == <<"/", "b", ".PDF">>
HAbs == <<"https://cdn", "/", "c", ".pdf">>
HQuery == <<"/", "d", ".pdf", "?dl=1">>
HHtml == <<"/", "e", ".html">>
HPadded == <<"<sp>", "/", "f", ".pdf", "<nl>">>
HStory == <<"/", "en", "/", "story">>

P(a) == El("p", <<Txt(a)>>)
H1 == El("h1", <<Txt("title")>>)
HtmlBlock(kids) == Div({"block", "html-block"}, kids)

DomEmpty == <<>>
DomBlock ==
  <<H1, HtmlBlock(<<P("w1"), Txt("<nl>"), P("w2")>>), P("w3"),
    HtmlBlock(<<P("w4")>>), Ref("a", {}, HHtml, <<Txt("more")>>)>>
DomH1Div ==
  <<H1, Txt("<nl>"), El("div", <<P("w1"), El("ul", <<El("li", <<Txt("w2")>>)>>)>>),
    El("div", <<Txt("Timeline")>>), El("div", <<P("w3")>>)>>
DomH1P == <<H1, P("w1"), P("w2"), El("h2", <<Txt("TIMELINE")>>), P("w3")>>
DomNoH1 == <<P("w1"), El("div", <<P("<sp>"), P("w2")>>)>>
DomStory ==
  <<H1, El("div", <<P("w1")>>),
    El("div", <<Txt("This is a response to"), Ref("a", {}, HStory, <<Txt("story")>>)>>),
    El("div", <<P("w3")>>)>>
DomButtonFirst ==
  <<H1, El("div", <<Ref("a", {"button"}, HRel, <<Txt("Download attachment")>>),
                   Ref("a", {}, HAbs, <<Txt("annex")>>), P("w1")>>)>>
DomGenericFirst ==
  <<H1, El("div", <<Ref("a", {}, HAbs, <<Txt("annex")>>),
                   Ref("a", {"button"}, HRel, <<Txt("Download attachment")>>), P("w1")>>)>>
DomQuery == <<HtmlBlock(<<P("w1")>>), Ref("a", {"button"}, HQuery, <<Txt("Download attachment")>>)>>
DomUpperLink == <<Ref("link", {}, HRootUpper, <<>>), P("w2")>>
DomPadded == <<El("a", <<Txt("nohref")>>), Ref("a", {}, HHtml, <<>>), Ref("a", {}, HPadded, <<>>)>>

Doms ==
  {DomEmpty, DomBlock, DomH1Div, DomH1P, DomNoH1, DomStory, DomButtonFirst,
   DomGenericFirst, DomQuery, DomUpperLink, DomPadded}

Str(v) == [t |-> "str", s |-> v]
Null == [t |-> "null", s |-> <<>>]
Pair(k, v) == [k |-> k, v |-> v]

DataAbsent == [kind |-> "absent", pairs |-> <<>>]
DataInvalid == [kind |-> "invalid", pairs |-> <<Pair("url", Str(HAbs))>>]
DataList == [kind |-> "list", pairs |-> <<>>]
DataFile == [kind |-> "dict", pairs |-> <<Pair("title", Str(<<"t">>)), Pair("file", Str(HRel))>>]
DataUrlSource ==
  [kind |-> "dict", pairs |-> <<Pair("url", Str(HAbs)), Pair("source", Str(HRootUpper))>>]
DataNull == [kind |-> "dict", pairs |-> <<Pair("source", Null), Pair("url", Str(HHtml))>>]
DataPlain == [kind |-> "dict", pairs |-> <<Pair("url", Str(HHtml))>>]
DataUpperKey == [kind |-> "dict", pairs |-> <<Pair("Source", Str(HAbs))>>]

Datas ==
  {DataAbsent, DataInvalid, DataList, DataFile, DataUrlSource, DataNull, DataPlain,
   DataUpperKey}

Inlines == {<<>>, <<Pair("pdf", Str(HQuery))>>}

Page(d, x, n) == [dom |-> d, data |-> x, inline |-> n]

\* every tree with no page data, every page data under a tree without a
\* PDF link, and page data under a tree with a PDF link
Pages ==
  {Page(d, DataAbsent, <<>>) : d \in Doms}
    \cup {Page(DomNoH1, x, n) : x \in Datas, n \in Inlines}
    \cup {Page(DomQuery, x, <<>>) : x \in {DataUrlSource, DataNull}}

NoPage == Page(<<>>, DataAbsent, <<>>)

\* rows of the input CSV: a dict from column names to strings
RowOk == [URL |-> PageUrl, Company |-> <<"acme">>]
RowBlank == [URL |-> <<"<sp>">>, Company |-> <<"bolt">>]
RowNoUrl == [Company |-> <<"core">>]
RowFixtures == {RowOk, RowBlank, RowNoUrl}

\* row.get(url_col) or ""
RowGet(row, col) == IF col \in DOMAIN row THEN row[col] ELSE <<>>

SeqsUpTo(S, n) == UNION {[1..k -> S] : k \in 0..n}

\* what the collaborators can answer
MinerTexts == {<<>>, <<"<ff>">>, <<"m1">>, <<"<sp>", "m1", "<nl>">>}
PypdfPageTexts == {<<>>, <<"y1">>}
OcrPageTexts == {<<"o1", "<ff>">>, <<"o2">>}
TitleTexts == {<<>>, <<"<sp>", "story-title">>}

\* the collaborators answer as they like
NoWorld == [fixed |-> FALSE]

\* call_llm has not returned, no request was made
NoReturn == [kind |-> "none"]
NoAnswer == [kind |-> "none"]

\* no extraction stage has answered
Nothing == [by |-> "none", raised |-> FALSE, text |-> <<>>, pages |-> <<>>]

(* ---- state ----------------------------------------------------------- *)
VARIABLES
  rows,        \* the rows the csv reader has yielded so far
  pc,          \* position of the program
  page,        \* resp_html of the current row
  pdf_url,     \* pdf_url of extract_response_text_preferring_pdf
  pdf_text,    \* the value download_pdf_text returns
  result,      \* response_text: what the resolver returned
  story_text,  \* story_text of enrich_row_from_url
  http,        \* how the attachment download of the current row ended
  calls,       \* the collaborators invoked for the current row, in order
  got,         \* what the extraction stage invoked last did (download_pdf_text)
  out,         \* the lines of the output JSONL file
  wrote,       \* for each line of the file, the number of the row it is for
  errors,      \* the "[error]" lines printed
  sessions,    \* browser sessions created and not quit
  slept,       \* rows after which the polite pause was taken
  exc,         \* the exception propagating to the row loop
  branch,      \* the branch of the HTML fallback the resolver took
  tries,       \* how often enrich_row_from_url was entered for the current row
  world,       \* what the collaborators answer, when the answers are fixed
  llm_pc,          \* position inside call_llm
  MAX_RETRIES,     \* the module global of analyse_bhrrc.py
  RATE_LIMIT_SLEEP,\* the module global of analyse_bhrrc.py, in seconds
  attempt,         \* the loop variable of call_llm
  tried,           \* the chat completion requests call_llm has made
  naps,            \* the durations call_llm has slept, in order
  ret,             \* what call_llm returned
  resp,            \* what the chat completion request of the last attempt did
  has_re,          \* translator.py: the name re is bound where the script runs
  deepl_translator,\* the translator object, or None when no API key is set
  df,              \* the data frame: one record per row
  t_pc,            \* position of the translation script
  response_lang,   \* the column response_lang
  non_en_mask,     \* the rows selected for translation
  response_text_en,\* the column response_text_en
  texts,           \* the argument of translate_deepl
  tr_out,          \* out of translate_deepl
  pos,             \* where the current batch starts in texts
  flat,            \* flat of translate_deepl
  reconstruct,     \* reconstruct of translate_deepl
  attempts,        \* attempts of translate_deepl
  translated_flat, \* translated_flat of translate_deepl
  api_calls,       \* the lists handed to the translation API for this batch
  t_naps,          \* the durations slept for this batch, in half seconds
  res,             \* what the last call of the translation API did
  batches,         \* one record per batch that was finished
  sent,            \* the rows whose text was handed to the translation API
  cache,           \* the rows of the table cache of translate_cache.sqlite
  t_exc,           \* the exception that ended the translation script
  m_pc,            \* analyse_bhrrc.py: position inside main
  loaded,          \* what load_rows returned
  limit,           \* args.limit
  m_rows,          \* rows of main
  m_i,             \* the row the for loop of main is at
  out_records,     \* out_records of main
  csv,             \* the output CSV file
  m_exc,           \* the exception that ended main
  n_pc,            \* nlp_based_narrative_extraction.py: position of the script
  doc_ids,         \* doc_ids
  n_i,             \* the document the for loop is at
  llm_response,    \* llm_response
  results,         \* results
  narratives,      \* the file narratives.json
  n_exc,           \* the exception that ended the script
  j_pc,            \* analyse_coc.py: position inside _json_from_model_text
  j_text,          \* its argument s
  j_result         \* what it returned or raised

\* the state of call_llm (analyse_bhrrc.py)
llm == <<llm_pc, MAX_RETRIES, RATE_LIMIT_SLEEP, attempt, tried, naps, ret, resp>>

\* the state of the translation script (code/translator.py)
t_env == <<has_re, deepl_translator, df, cache>>
t_cols == <<response_lang, non_en_mask, response_text_en, texts>>
t_batch == <<flat, reconstruct, attempts, translated_flat, api_calls, t_naps, res>>
translator == <<t_env, t_cols, t_batch, t_pc, tr_out, pos, batches, sent, t_exc>>

\* the state of main of the LLM pipeline (analyse_bhrrc.py)
pipeline == <<m_pc, loaded, limit, m_rows, m_i, out_records, csv, m_exc>>

\* what a step of one program leaves alone: the state of the others
narrative == <<n_pc, doc_ids, n_i, llm_response, results, narratives, n_exc>>

json_scanner == <<j_pc, j_text, j_result>>

beside_llm == <<translator, pipeline, narrative, json_scanner>>
beside_translator == <<llm, pipeline, narrative, json_scanner>>
beside_pipeline == <<translator, narrative, json_scanner>>
beside_narrative == <<llm, translator, pipeline, json_scanner>>
beside_json_scanner == <<llm, translator, pipeline, narrative>>

\* what no step of the scraper touches
rest == <<world, llm, translator, pipeline, narrative, json_scanner>>

\* the state of the scraper (bhrrc_scraper.py)
scraper ==
  <<rows, pc, page, pdf_url, pdf_text, result, story_text, http, calls, got, out,
    wrote, errors, sessions, slept, exc, branch, tries>>

vars == <<scraper, rest>>

\* the locals of enrich_row_from_url and of the functions it calls
locals ==
  <<page, pdf_url, pdf_text, result, story_text, http, calls, got, branch>>

row == rows[Len(rows)]
url == Strip(RowGet(row, "URL"))

InitScraper ==
  /\ rows = <<>>
  /\ pc = "loop"
  /\ page = NoPage
  /\ pdf_url = <<>>
  /\ pdf_text = <<>>
  /\ result = <<>>
  /\ story_text = <<>>
  /\ http = "none"
  /\ calls = <<>>
  /\ got = Nothing
  /\ out = <<>>
  /\ wrote = <<>>
  /\ errors = <<>>
  /\ sessions = 0
  /\ slept = {}
  /\ exc = "none"
  /\ branch = "none"
  /\ tries = 0

\* call_llm is not running
LlmIdle ==
  /\ llm_pc = "idle"
  /\ MAX_RETRIES = 0
  /\ RATE_LIMIT_SLEEP = 0
  /\ attempt = 0
  /\ tried = 0
  /\ naps = <<>>
  /\ ret = NoReturn
  /\ resp = NoAnswer

\* the translation script is not running
TranslatorIdle ==
  /\ has_re = FALSE
  /\ deepl_translator = "None"
  /\ df = <<>>
  /\ t_pc = "idle"
  /\ response_lang = <<>>
  /\ non_en_mask = {}
  /\ response_text_en = <<>>
  /\ texts = <<>>
  /\ tr_out = <<>>
  /\ pos = 1
  /\ flat = <<>>
  /\ reconstruct = <<>>
  /\ attempts = 0
  /\ translated_flat = <<>>
  /\ api_calls = <<>>
  /\ t_naps = <<>>
  /\ res = "none"
  /\ batches = <<>>
  /\ sent = {}
  /\ cache = {}
  /\ t_exc = "none"

\* no output file of the LLM pipeline
NoCsv == [written |-> FALSE, records |-> <<>>]

\* main of the LLM pipeline is not running
PipelineIdle ==
  /\ m_pc = "idle"
  /\ loaded = <<>>
  /\ limit = 0
  /\ m_rows = <<>>
  /\ m_i = 1
  /\ out_records = <<>>
  /\ csv = NoCsv
  /\ m_exc = "none"

\* no file narratives.json
NoFile == [written |-> FALSE, records |-> <<>>]

\* the narrative extraction is not running
NarrativeIdle ==
  /\ n_pc = "idle"
  /\ doc_ids = <<>>
  /\ n_i = 1
  /\ llm_response = "none"
  /\ results = <<>>
  /\ narratives = NoFile
  /\ n_exc = "none"

\* _json_from_model_text is not running
NoResult == [kind |-> "none", text |-> <<>>]

JsonScannerIdle == j_pc = "idle" /\ j_text = <<>> /\ j_result = NoResult

\* the programs beside the scraper and call_llm are not running
OthersIdle == TranslatorIdle /\ PipelineIdle /\ NarrativeIdle /\ JsonScannerIdle

\* the scraper has not started and the collaborators' answers are free
ScraperIdle == InitScraper /\ world = NoWorld

Init == InitScraper /\ world = NoWorld /\ LlmIdle /\ OthersIdle

\* enrich_row_from_url is left: its locals are gone
Forget ==
  /\ page' = NoPage
  /\ pdf_url' = <<>>
  /\ pdf_text' = <<>>
  /\ result' = <<>>
  /\ story_text' = <<>>
  /\ http' = "none"
  /\ calls' = <<>>
  /\ got' = Nothing
  /\ branch' = "none"

\* an exception leaves enrich_row_from_url
Throw(e) == pc' = "except" /\ exc' = e

Called(c) == calls' = Append(calls, c)

(* ---- the row loop (lines 236-244) ------------------------------------ *)
\* line 236: the for statement asks the reader for a row only at its head,
\* after the body has run to its end for the row before
ReaderAsksAhead == pc \in {"loop", "enriched"}
ReaderAsked == pc = "loop"

\* line 236: the reader yields the next row
NextRow ==
  /\ ReaderAsked
  /\ Len(rows) < MaxRows
  /\ \E r \in RowFixtures : rows' = Append(rows, r)
  /\ pc' = "enrich"
  /\ tries' = 0
  /\ UNCHANGED <<locals, out, wrote, errors, sessions, slept, exc, rest>>

\* line 236: the reader is exhausted
EndOfInput ==
  /\ pc = "loop"
  /\ pc' = "done"
  /\ UNCHANGED <<rows, locals, out, wrote, errors, sessions, slept, exc, tries,
                 rest>>

\* lines 195-197, 239, 242: no URL, enrich returns None, nothing is appended
EnrichNoUrl ==
  /\ pc = "enrich"
  /\ url = <<>>
  /\ slept' = slept \cup {Len(rows)}
  /\ tries' = tries + 1
  /\ pc' = "loop"
  /\ UNCHANGED <<rows, locals, out, wrote, errors, sessions, exc, rest>>

\* line 199: init_browser
InitBrowser ==
  /\ pc = "enrich"
  /\ url # <<>>
  /\ sessions' = sessions + 1
  /\ tries' = tries + 1
  /\ pc' = "get_resp"
  /\ UNCHANGED <<rows, locals, out, wrote, errors, slept, exc, rest>>

\* line 202: get_html_with_chrome; the page load can time out
GetRespHtml ==
  /\ pc = "get_resp"
  /\ \/ \E p \in Pages : page' = p /\ pc' = "find_pdf" /\ exc' = exc
     \/ page' = page /\ Throw("WebDriverException")
  /\ UNCHANGED <<rows, pdf_url, pdf_text, result, story_text, http, calls, got,
                 out, wrote, errors, sessions, slept, branch, tries, rest>>

(* ---- extract_response_text_preferring_pdf, download_pdf_text --------- *)
\* What a collaborator did: it raised, or it returned a text (for the
\* paged readers: one text per page).
Raised(by) == [by |-> by, raised |-> TRUE, text |-> <<>>, pages |-> <<>>]
Gave(by, t) == [by |-> by, raised |-> FALSE, text |-> t, pages |-> <<>>]
GavePages(by, ps) == [by |-> by, raised |-> FALSE, text |-> <<>>, pages |-> ps]

\* where the program goes next, with the text and the exception it carries
Goto(p) == [pc |-> p, text |-> <<>>, exc |-> "none"]
Return(t) == [pc |-> "pdf_return", text |-> t, exc |-> "none"]
Propagate(e) == [pc |-> "except", text |-> <<>>, exc |-> e]

\* lines 146-147
AfterFind(r) ==
  IF r.kind = "raise" THEN Propagate("AttributeError")
  ELSE IF r.kind = "url" /\ r.url # <<>> THEN Goto("http_get")
  ELSE Goto("html")

\* line 72: SESSION.get(...); r.raise_for_status()
HttpAnswers == {"ok", "status_error", "timeout"}
AfterGetFallsBack(a) == IF a = "ok" THEN Goto("pdfminer") ELSE Goto("html")
AfterGet(a) ==
  IF a = "ok" THEN Goto("pdfminer")
  ELSE IF a = "status_error" THEN Propagate("HTTPError")
  ELSE Propagate("Timeout")

\* lines 76-79: pdfminer
AfterMinerNoReturn(o) == Goto("pypdf")
AfterMiner(o) ==
  IF o.raised THEN Goto("pypdf")
  ELSE IF Strip(o.text) # <<>> THEN Return(Strip(o.text)) ELSE Goto("pypdf")

\* lines 82-86: pypdf
AfterPypdf(o) ==
  IF o.raised THEN Goto("ocr")
  ELSE IF Strip(Join(NL, o.pages)) # <<>> THEN Return(Strip(Join(NL, o.pages)))
  ELSE Goto("ocr")

\* lines 89-91: pdf2image and tesseract, outside any try
AfterOcrJoinsLikePypdf(o) ==
  IF o.raised THEN Propagate("OCRError") ELSE Return(Strip(Join(NL, o.pages)))
AfterOcr(o) ==
  IF o.raised THEN Propagate("OCRError") ELSE Return(Strip(Join(NLNL, o.pages)))

\* lines 148-152: the resolver uses the PDF text only if it got any
AfterPdfAlwaysReturns(t) == TRUE
AfterPdfReturns(t) == t # <<>>

\* line 146
FindPdf ==
  /\ pc = "find_pdf"
  /\ LET r == find_first_pdf_url(page, url)
         n == AfterFind(r)
     IN  /\ pdf_url' = r.url
         /\ pc' = n.pc
         /\ exc' = n.exc
  /\ Called("find_first_pdf_url")
  /\ UNCHANGED <<rows, page, pdf_text, result, story_text, http, got, out, wrote,
                 errors, sessions, slept, branch, tries, rest>>

\* line 72
HttpGet ==
  /\ pc = "http_get"
  /\ \E a \in HttpAnswers :
       LET n == AfterGet(a) IN http' = a /\ pc' = n.pc /\ exc' = n.exc
  /\ Called("http_get")
  /\ UNCHANGED <<rows, page, pdf_url, pdf_text, result, story_text, got, out,
                 wrote, errors, sessions, slept, branch, tries, rest>>

\* one extraction stage of download_pdf_text
Stage(at, Outcomes, After(_)) ==
  /\ pc = at
  /\ \E o \in Outcomes :
       LET n == After(o)
       IN  /\ pc' = n.pc /\ pdf_text' = n.text /\ exc' = n.exc
           /\ got' = o
           /\ Called(o.by)
  /\ UNCHANGED <<rows, page, pdf_url, result, story_text, http, out, wrote, errors,
                 sessions, slept, branch, tries, rest>>

\* what each stage can do: raise, or give a text (one per page)
MinerOutcomes == {Raised("pdfminer")} \cup {Gave("pdfminer", t) : t \in MinerTexts}
PypdfOutcomes ==
  {Raised("pypdf")}
    \cup {GavePages("pypdf", ps) : ps \in SeqsUpTo(PypdfPageTexts, MaxPages)}
OcrOutcomes ==
  {Raised("ocr")}
    \cup {GavePages("ocr", ps) : ps \in SeqsUpTo(OcrPageTexts, MaxPages)}

Pdfminer == Stage("pdfminer", MinerOutcomes, AfterMiner)

Pypdf == Stage("pypdf", PypdfOutcomes, AfterPypdf)

Ocr == Stage("ocr", OcrOutcomes, AfterOcr)

\* line 150: what the resolver returns on the PDF path
PdfResultAppended(t, pg) ==
  IF out = <<>> THEN t ELSE out[Len(out)].response_text \o NLNL \o t
PdfResultWithHtml(t, pg) == t \o NLNL \o HtmlText(pg)
PdfResult(t, pg) == t

\* lines 148-150: back in the resolver with pdf_text
PdfReturn ==
  /\ pc = "pdf_return"
  /\ IF AfterPdfReturns(pdf_text)
       THEN result' = PdfResult(pdf_text, page) /\ pc' = "resolved"
       ELSE result' = result /\ pc' = "html"
  /\ got' = Nothing
  /\ UNCHANGED <<rows, page, pdf_url, pdf_text, story_text, http, calls, out,
                 wrote, errors, sessions, slept, exc, branch, tries, rest>>

\* lines 155-178
HtmlExtract ==
  /\ pc = "html"
  /\ result' = HtmlText(page)
  /\ branch' = HtmlBranch(page)
  /\ pc' = "resolved"
  /\ Called("html")
  /\ UNCHANGED <<rows, page, pdf_url, pdf_text, story_text, http, got, out, wrote,
                 errors, sessions, slept, exc, tries, rest>>

(* ---- the rest of enrich_row_from_url (lines 204-214) ----------------- *)
\* line 204, 207
FindStory ==
  /\ pc = "resolved"
  /\ pc' = IF find_parent_story_url_from_html(url, page).kind = "url"
             THEN "get_story" ELSE "enriched"
  /\ UNCHANGED <<rows, locals, out, wrote, errors, sessions, slept, exc, tries,
                 rest>>

\* lines 208-209: the story page is fetched and its title taken
GetStoryHtml ==
  /\ pc = "get_story"
  /\ \/ \E t \in TitleTexts : story_text' = Strip(t) /\ pc' = "enriched" /\ exc' = exc
     \/ story_text' = story_text /\ Throw("WebDriverException")
  /\ UNCHANGED <<rows, page, pdf_url, pdf_text, result, http, calls, got, out,
                 wrote, errors, sessions, slept, branch, tries, rest>>

\* lines 211-214: dict(row) plus the two texts
Enriched(r, st, rt) ==
  [c \in DOMAIN r \cup {"story_text", "response_text"} |->
     IF c = "story_text" THEN Strip(st)
     ELSE IF c = "response_text" THEN Strip(rt)
     ELSE r[c]]

\* lines 211-213 written on the row itself instead of on a copy
RowAliased(r, st, rt) == Enriched(r, st, rt)

\* line 211: dict(row) is a new dictionary, the assignments of lines 212-213
\* do not reach the row
RowAfterEnrich(r, st, rt) == r

\* the file opened with mode "w"
overwrite_jsonl(file, obj) == <<obj>>

\* lines 188-191: the file is opened with mode "a" and gets one more line
append_jsonl(file, obj) == Append(file, obj)

\* lines 239-242: the record is appended, then the polite pause
RowDone ==
  /\ pc = "enriched"
  /\ out' = append_jsonl(out, Enriched(row, story_text, result))
  /\ rows' = [rows EXCEPT ![Len(rows)] = RowAfterEnrich(row, story_text, result)]
  /\ wrote' = Append(wrote, Len(rows))
  /\ slept' = slept \cup {Len(rows)}
  /\ pc' = "loop"
  /\ Forget
  /\ UNCHANGED <<errors, sessions, exc, tries, rest>>

\* the except clause sits inside the for loop: the loop goes on
AfterExceptEndsLoop == "done"
AfterExceptTriesAgain == "enrich"
AfterExcept == "loop"

\* lines 243-244: the row loop catches the exception and prints it
RowFailed ==
  /\ pc = "except"
  /\ errors' = Append(errors, [row |-> Len(rows), exc |-> exc])
  /\ exc' = "none"
  /\ pc' = AfterExcept
  /\ Forget
  /\ UNCHANGED <<rows, out, wrote, sessions, slept, tries, rest>>

Next ==
  \/ NextRow
  \/ EndOfInput
  \/ EnrichNoUrl
  \/ InitBrowser
  \/ GetRespHtml
  \/ FindPdf
  \/ HttpGet
  \/ Pdfminer
  \/ Pypdf
  \/ Ocr
  \/ PdfReturn
  \/ HtmlExtract
  \/ FindStory
  \/ GetStoryHtml
  \/ RowDone
  \/ RowFailed

Spec == Init /\ [][Next]_vars

(* ---- the same page resolved twice, the collaborators answering alike -- *)
\* The answers of the collaborators are fixed before the run: the markup the
\* browser gives for the URL, how the attachment download ends, what
\* pdfminer, pypdf and the OCR do with the bytes, the title of the story
\* page.  An answer nobody asks for has one value.
Asked(w) ==
  LET r == find_first_pdf_url(w.page, PageUrl)
      download == AfterFind(r).pc = "http_get"
      miner == download /\ AfterGet(w.http).pc = "pdfminer"
      pypdf == miner /\ AfterMiner(w.miner).pc = "pypdf"
      ocr == pypdf /\ AfterPypdf(w.pypdf).pc = "ocr"
      story == find_parent_story_url_from_html(PageUrl, w.page).kind = "url"
  IN  /\ ~download => w.http = "ok"
      /\ ~miner => w.miner = Raised("pdfminer")
      /\ ~pypdf => w.pypdf = Raised("pypdf")
      /\ ~ocr => w.ocr = Raised("ocr")
      /\ ~story => w.title = <<>>

Worlds ==
  {w \in [fixed : {TRUE}, page : Pages, http : HttpAnswers, miner : MinerOutcomes,
          pypdf : PypdfOutcomes, ocr : OcrOutcomes, title : TitleTexts] : Asked(w)}

InitTwice == InitScraper /\ world \in Worlds /\ LlmIdle /\ OthersIdle

\* the same row, with the same URL, is handed in twice
SameRowAgain ==
  /\ NextRow
  /\ Len(rows) < 2
  /\ rows' = Append(rows, RowOk)

BothCallsMade == EndOfInput /\ Len(rows) = 2

SamePage == GetRespHtml /\ pc' = "find_pdf" /\ page' = world.page
SameHttpAnswer == HttpGet /\ http' = world.http
SamePdfminer == Pdfminer /\ got' = world.miner
SamePypdf == Pypdf /\ got' = world.pypdf
SameOcr == Ocr /\ got' = world.ocr
SameStory == GetStoryHtml /\ pc' = "enriched" /\ story_text' = Strip(world.title)

NextTwice ==
  \/ SameRowAgain
  \/ BothCallsMade
  \/ InitBrowser
  \/ SamePage
  \/ FindPdf
  \/ SameHttpAnswer
  \/ SamePdfminer
  \/ SamePypdf
  \/ SameOcr
  \/ PdfReturn
  \/ HtmlExtract
  \/ FindStory
  \/ SameStory
  \/ RowDone
  \/ RowFailed

SpecTwice == InitTwice /\ [][NextTwice]_vars

(* ---- call_llm (src/analyse_bhrrc.py, lines 174-209) ------------------ *)
\* What one chat completion request does: it raises (transport error, rate
\* limit, timeout, no choice in the answer), or it answers with a tool call
\* whose arguments are a JSON text, or without tool call and with a content
\* that is None or a JSON text.  A JSON text is an object ("dict"), another
\* JSON value ("list") or no JSON at all ("broken").
JsonTexts == {"dict", "list", "broken"}
ApiError == [kind |-> "error", text |-> "none"]
ToolCall(t) == [kind |-> "tool_call", text |-> t]
Content(t) == [kind |-> "content", text |-> t]
LlmAnswers ==
  {ApiError} \cup {ToolCall(t) : t \in JsonTexts}
    \cup {Content(t) : t \in JsonTexts \cup {"None"}}

\* what call_llm returns
Parsed(v) == [kind |-> "parsed", value |-> v]
\* lines 201-203
FallbackRecord ==
  [kind |-> "record", relational_contract_importance |-> "not evident",
   confidence |-> "0.2"]
\* lines 206-208
ErrorRecord ==
  [kind |-> "record", relational_contract_importance |-> "not evident (LLM error)",
   confidence |-> "0.0"]
\* the function body ends without a return statement
ReturnsNone == [kind |-> "None"]

\* lines 191-203: what the try block does with the answer
Raising == [raised |-> TRUE, value |-> NoReturn]
Returning(v) == [raised |-> FALSE, value |-> v]
AfterAnswer(a) ==
  IF a.kind = "error" THEN Raising
  ELSE IF a.kind = "tool_call"
    THEN IF a.text = "broken" THEN Raising ELSE Returning(Parsed(a.text))
  ELSE IF a.text = "None" THEN Returning(Parsed("dict"))
  ELSE IF a.text = "broken" THEN Returning(FallbackRecord)
  ELSE Returning(Parsed(a.text))

\* what call_llm returned is a dictionary
IsRecord(v) == v.kind = "record" \/ (v.kind = "parsed" /\ v.value = "dict")

\* line 209: time.sleep(RATE_LIMIT_SLEEP*(attempt+1))
BackoffConstant(rate, n) == rate
Backoff(rate, n) == rate * (n + 1)

\* line 205
IsLastAttempt(n, retries) == n = retries - 1

InitLlm ==
  /\ ScraperIdle
  /\ OthersIdle
  /\ llm_pc = "for"
  /\ MAX_RETRIES \in 0..MaxRetries
  /\ RATE_LIMIT_SLEEP \in 1..MaxSleep
  /\ attempt = 0
  /\ tried = 0
  /\ naps = <<>>
  /\ ret = NoReturn
  /\ resp = NoAnswer

\* line 181: range(MAX_RETRIES) yields the next attempt
LlmNextAttempt ==
  /\ llm_pc = "for"
  /\ attempt < MAX_RETRIES
  /\ llm_pc' = "try"
  /\ UNCHANGED <<scraper, world, beside_llm, MAX_RETRIES, RATE_LIMIT_SLEEP, attempt, tried,
                 naps, ret, resp>>

\* line 181: range(MAX_RETRIES) is exhausted; the function ends
LlmLoopExhausted ==
  /\ llm_pc = "for"
  /\ attempt >= MAX_RETRIES
  /\ ret' = ReturnsNone
  /\ llm_pc' = "returned"
  /\ UNCHANGED <<scraper, world, beside_llm, MAX_RETRIES, RATE_LIMIT_SLEEP, attempt, tried,
                 naps, resp>>

\* lines 182-203: the request and what the try block makes of the answer
LlmTry ==
  /\ llm_pc = "try"
  /\ tried' = tried + 1
  /\ \E a \in LlmAnswers :
       /\ resp' = a
       /\ IF AfterAnswer(a).raised
            THEN llm_pc' = "except" /\ ret' = ret
            ELSE llm_pc' = "returned" /\ ret' = AfterAnswer(a).value
  /\ UNCHANGED <<scraper, world, beside_llm, MAX_RETRIES, RATE_LIMIT_SLEEP, attempt, naps>>

\* lines 204-209: the handler returns the error record after the last
\* attempt, and sleeps before any other
LlmExcept ==
  /\ llm_pc = "except"
  /\ IF IsLastAttempt(attempt, MAX_RETRIES)
       THEN /\ ret' = ErrorRecord
            /\ llm_pc' = "returned"
            /\ UNCHANGED <<attempt, naps>>
       ELSE /\ naps' = Append(naps, Backoff(RATE_LIMIT_SLEEP, attempt))
            /\ attempt' = attempt + 1
            /\ llm_pc' = "for"
            /\ ret' = ret
  /\ UNCHANGED <<scraper, world, beside_llm, MAX_RETRIES, RATE_LIMIT_SLEEP, tried, resp>>

NextLlm ==
  \/ LlmNextAttempt
  \/ LlmLoopExhausted
  \/ LlmTry
  \/ LlmExcept

SpecLlm == InitLlm /\ [][NextLlm]_vars

(* ---- main of the LLM pipeline (src/analyse_bhrrc.py, lines 292-339) -- *)
\* the rows of the input file: records of text fields; the second one has a
\* column named like a field of the extraction
JsonRowPlain == [Company |-> "acme", response_text |-> "r1"]
JsonRowWithConfidence == [Company |-> "bolt", confidence |-> "high"]
JsonRows == {JsonRowPlain, JsonRowWithConfidence}

\* the values of --limit
Limits == (0 - 1)..(MaxLoaded + 1)

\* the fields lines 306-316 set, as far as the model follows them
ExtractionFields == {"relational_contract_importance", "confidence", "year"}

\* data.get(field): the field of the fallback and error records, or what
\* the model's own dictionary holds
DataGet(data, field) ==
  IF data.kind = "record" THEN data[field] ELSE "from the model"

\* lines 304-317: {**r, ...}: the fields of the row, then the fields of the
\* extraction, which win where the names are the same
MergedRecord(r, data) ==
  [c \in DOMAIN r \cup ExtractionFields |->
     IF c = "year" THEN "parse_year"
     ELSE IF c \in ExtractionFields THEN DataGet(data, c)
     ELSE r[c]]

\* lines 294-295
Limited(lst, n) ==
  IF n # 0 /\ n > 0
  THEN SubSeq(lst, 1, IF n < Len(lst) THEN n ELSE Len(lst))
  ELSE lst

InitMain ==
  /\ ScraperIdle
  /\ TranslatorIdle
  /\ NarrativeIdle
  /\ JsonScannerIdle
  /\ llm_pc = "idle"
  /\ MAX_RETRIES \in 0..MaxRetries
  /\ RATE_LIMIT_SLEEP = 1
  /\ attempt = 0
  /\ tried = 0
  /\ naps = <<>>
  /\ ret = NoReturn
  /\ resp = NoAnswer
  /\ m_pc = "start"
  /\ loaded \in SeqsUpTo(JsonRows, MaxLoaded)
  /\ limit \in Limits
  /\ m_rows = <<>>
  /\ m_i = 1
  /\ out_records = <<>>
  /\ csv = NoCsv
  /\ m_exc = "none"

\* lines 293-298
MainLoad ==
  /\ m_pc = "start"
  /\ m_rows' = Limited(loaded, limit)
  /\ m_i' = 1
  /\ out_records' = <<>>
  /\ m_pc' = "for"
  /\ UNCHANGED <<scraper, world, llm, beside_pipeline, loaded, limit, csv, m_exc>>

\* lines 300-303: call_llm is entered for the next row
MainCall ==
  /\ m_pc = "for"
  /\ m_i <= Len(m_rows)
  /\ m_pc' = "call_llm"
  /\ llm_pc' = "for"
  /\ attempt' = 0
  /\ tried' = 0
  /\ naps' = <<>>
  /\ ret' = NoReturn
  /\ resp' = NoAnswer
  /\ UNCHANGED <<scraper, world, beside_pipeline, MAX_RETRIES, RATE_LIMIT_SLEEP,
                 loaded, limit, m_rows, m_i, out_records, csv, m_exc>>

\* lines 304-319: the record of the row is built from what call_llm returned
MainRecord ==
  /\ m_pc = "call_llm"
  /\ llm_pc = "returned"
  /\ llm_pc' = "idle"
  /\ IF IsRecord(ret)
     THEN /\ out_records' = Append(out_records, MergedRecord(m_rows[m_i], ret))
          /\ m_i' = m_i + 1
          /\ m_pc' = "for"
          /\ m_exc' = m_exc
     ELSE /\ m_pc' = "raised"
          /\ m_exc' = "AttributeError"
          /\ UNCHANGED <<out_records, m_i>>
  /\ UNCHANGED <<scraper, world, beside_pipeline, MAX_RETRIES, RATE_LIMIT_SLEEP,
                 attempt, tried, naps, ret, resp, loaded, limit, m_rows, csv>>

\* lines 321-329: the records are written to the CSV file
MainWrite ==
  /\ m_pc = "for"
  /\ m_i > Len(m_rows)
  /\ csv' = [written |-> TRUE, records |-> out_records]
  /\ m_pc' = "done"
  /\ UNCHANGED <<scraper, world, llm, beside_pipeline, loaded, limit, m_rows, m_i,
                 out_records, m_exc>>

NextMain ==
  \/ MainLoad
  \/ MainCall
  \/ LlmNextAttempt
  \/ LlmLoopExhausted
  \/ LlmTry
  \/ LlmExcept
  \/ MainRecord
  \/ MainWrite

SpecMain == InitMain /\ [][NextMain]_vars

(* ---- the translation script (src/code/translator.py) ------------------ *)
\* A text is a sequence of atoms.  "<bs>s" stands for the two characters
\* backslash and s that follow a full stop, the only place where the pattern
\* of line 56 matches; "g1" and "g2" are sentences of 2000 characters.
SplitAtom == "<bs>s"

AtomLen(a) ==
  CASE a \in {"g1", "g2"} -> 2000
    [] a = "<sp>" -> 1
    [] a = SplitAtom -> 2
    [] OTHER -> 3

RECURSIVE TextLen(_)
TextLen(s) == IF s = <<>> THEN 0 ELSE AtomLen(Head(s)) + TextLen(Tail(s))

\* a missing cell of the data frame (the float NaN)
NaN == <<"NaN">>

\* astype(str), lines 125, 131, 134
AsStr(cell) == IF cell = NaN THEN <<"nan">> ELSE cell

\* the cells of the column response_text
English == <<"e1">>
French == <<"f1">>
TwoSentences == <<"f1", SplitAtom, "f2">>
LongGerman == <<"g1", SplitAtom, "g2">>
Undetectable == <<"x1">>
Blank == <<>>
Cells == {English, French, TwoSentences, LongGerman, Undetectable, Blank, NaN}

\* the data frames: a varied head, then nothing or one full batch of rows
Frames ==
  {h \o t : h \in SeqsUpTo(Cells, MaxHead),
            t \in {<<>>, [k \in 1..BatchSize |-> French]}}

\* what langdetect.detect answers for a text ("raise": it raises); the
\* text "nan" has no language of its own, the answer for it is open
detect(s) ==
  CASE Head(s) = "e1" -> "en"
    [] Head(s) = "f1" -> "fr"
    [] Head(s) = "g1" -> "de"
    [] Head(s) = "nan" -> "tl"
    [] OTHER -> "raise"

\* lines 115-122
detect_lang_safe(s, answer) ==
  IF Strip(s) = <<>> THEN "unknown"
  ELSE IF answer = "raise" THEN "unknown"
  ELSE answer

\* the rows whose cell is missing
NaNRows(frame) == {k \in 1..Len(frame) : frame[k] = NaN}

\* re.split of line 56: the pieces between the matches of the pattern
RECURSIVE ReSplit(_, _)
ReSplit(s, piece) ==
  IF s = <<>> THEN <<piece>>
  ELSE IF Head(s) = SplitAtom THEN <<piece>> \o ReSplit(Tail(s), <<>>)
  ELSE ReSplit(Tail(s), Append(piece, Head(s)))

\* lines 56-61: the loop over the pieces
RECURSIVE ChunkLoop(_, _, _, _)
ChunkLoop(segs, parts, cur, cur_len) ==
  IF segs = <<>> THEN
    \* lines 62-63
    IF cur # <<>> THEN Append(parts, Join(<<"<sp>">>, cur)) ELSE parts
  ELSE
    LET seg == Head(segs)
        full == cur_len + TextLen(seg) + 1 > MaxChars /\ cur # <<>>
        parts1 == IF full THEN Append(parts, Join(<<"<sp>">>, cur)) ELSE parts
        cur1 == IF full THEN <<>> ELSE cur
        len1 == IF full THEN 0 ELSE cur_len
    IN  ChunkLoop(Tail(segs), parts1, Append(cur1, seg), len1 + TextLen(seg) + 1)

\* lines 50-64
_chunk_long_text(text) ==
  IF text = <<>> THEN <<<<>>>>
  ELSE LET parts == ChunkLoop(ReSplit(text, <<>>), <<>>, <<>>, 0)
       IN  IF parts # <<>> THEN parts ELSE <<text>>

\* line 56 reads the name re, which the script does not import
NeedsRe(text) == text # <<>>

\* what the translation API gives for one text
Translated(c) == IF c = <<>> THEN <<>> ELSE <<"<en>">> \o c

\* lines 31-32: the hash of a text
_hash(text) == <<"sha256">> \o text

\* lines 34-37: the cached translation of a text, or nothing
cache_get(table, text) ==
  IF \E r \in table : r.text_hash = _hash(text)
  THEN (CHOOSE r \in table : r.text_hash = _hash(text)).text_translated
  ELSE <<"None">>

\* lines 39-43: REPLACE INTO cache
cache_put(table, text, translated) ==
  {r \in table : r.text_hash # _hash(text)}
    \cup {[text_hash |-> _hash(text), text_original |-> text,
           text_translated |-> translated]}

\* lines 45-47: the batch that starts at position p
BatchAt(lst, p) ==
  SubSeq(lst, p, IF p + BatchSize - 1 < Len(lst) THEN p + BatchSize - 1 ELSE Len(lst))

RECURSIVE Concat(_)
Concat(ss) == IF ss = <<>> THEN <<>> ELSE Head(ss) \o Concat(Tail(ss))

\* lines 108-112
RECURSIVE Rebuilt(_, _)
Rebuilt(tf, ns) ==
  IF ns = <<>> THEN <<>>
  ELSE <<Join(<<"<sp>">>, SubSeq(tf, 1, Head(ns)))>>
       \o Rebuilt(SubSeq(tf, Head(ns) + 1, Len(tf)), Tail(ns))

\* line 102 waits 1.5 * attempts seconds
DeeplBackoffFlat(k) == BackoffHalfSeconds

DeeplBackoff(k) == BackoffHalfSeconds * k

\* the rows of the mask, in the order of the frame
RECURSIVE MaskRows(_, _)
MaskRows(mask, n) ==
  IF n = 0 THEN <<>>
  ELSE IF n \in mask THEN Append(MaskRows(mask, n - 1), n)
  ELSE MaskRows(mask, n - 1)

\* how many rows of the mask come up to row k
Rank(mask, k) == Cardinality({j \in mask : j <= k})

InitTranslate ==
  /\ ScraperIdle
  /\ LlmIdle
  /\ PipelineIdle
  /\ NarrativeIdle
  /\ JsonScannerIdle
  /\ has_re \in BOOLEAN
  /\ deepl_translator \in {"Translator", "None"}
  /\ df \in Frames
  /\ t_pc = "detect"
  /\ response_lang = <<>>
  /\ non_en_mask = {}
  /\ response_text_en = <<>>
  /\ texts = <<>>
  /\ tr_out = <<>>
  /\ pos = 1
  /\ flat = <<>>
  /\ reconstruct = <<>>
  /\ attempts = 0
  /\ translated_flat = <<>>
  /\ api_calls = <<>>
  /\ t_naps = <<>>
  /\ res = "none"
  /\ batches = <<>>
  /\ sent = {}
  /\ cache = {}
  /\ t_exc = "none"

\* line 125
DetectColumn ==
  /\ t_pc = "detect"
  /\ \E nan_en \in SUBSET NaNRows(df) :
       response_lang' =
         [k \in 1..Len(df) |->
            detect_lang_safe(AsStr(df[k]),
                             IF k \in nan_en THEN "en"
                             ELSE IF AsStr(df[k]) = <<>> THEN "raise"
                             ELSE detect(AsStr(df[k])))]
  /\ t_pc' = "select"
  /\ UNCHANGED <<scraper, world, beside_translator, t_env, t_batch, non_en_mask,
                 response_text_en, texts, tr_out, pos, batches, sent, t_exc>>

\* lines 128-134
SelectRows ==
  /\ t_pc = "select"
  /\ non_en_mask' = {k \in 1..Len(df) : response_lang[k] # "en"}
  /\ response_text_en' = [k \in 1..Len(df) |-> AsStr(df[k])]
  /\ texts' = [k \in 1..Len(MaskRows(non_en_mask', Len(df))) |->
                 AsStr(df[MaskRows(non_en_mask', Len(df))[k]])]
  /\ t_pc' = "call"
  /\ UNCHANGED <<scraper, world, beside_translator, t_env, t_batch, response_lang,
                 tr_out, pos, batches, sent, t_exc>>

\* lines 135, 66-68
CallTranslate ==
  /\ t_pc = "call"
  /\ IF deepl_translator = "None"
     THEN t_pc' = "raised" /\ t_exc' = "AssertionError"
     ELSE t_pc' = "for" /\ t_exc' = t_exc
  /\ tr_out' = <<>>
  /\ pos' = 1
  /\ UNCHANGED <<scraper, world, beside_translator, t_env, t_cols, t_batch, batches,
                 sent>>

\* lines 69-85: the next batch is split into chunks
NextBatch ==
  /\ t_pc = "for"
  /\ pos <= Len(texts)
  /\ LET batch == BatchAt(texts, pos)
         split_batches == [k \in 1..Len(batch) |-> _chunk_long_text(batch[k])]
     IN  IF ~has_re /\ \E k \in 1..Len(batch) : NeedsRe(batch[k])
         THEN /\ t_pc' = "raised"
              /\ t_exc' = "NameError"
              /\ UNCHANGED <<t_batch, tr_out, pos>>
         ELSE /\ flat' = Concat(split_batches)
              /\ reconstruct' = [k \in 1..Len(batch) |-> Len(split_batches[k])]
              /\ translated_flat' = <<>>
              /\ IF flat' = <<>>
                 THEN /\ tr_out' = tr_out \o batch
                      /\ pos' = pos + BatchSize
                      /\ t_pc' = "for"
                      /\ UNCHANGED <<attempts, api_calls, t_naps, res>>
                 ELSE /\ attempts' = 0
                      /\ api_calls' = <<>>
                      /\ t_naps' = <<>>
                      /\ res' = "none"
                      /\ t_pc' = "while"
                      /\ UNCHANGED <<tr_out, pos>>
              /\ t_exc' = t_exc
  /\ UNCHANGED <<scraper, world, beside_translator, t_env, t_cols, batches, sent>>

\* lines 86-102: one call of the translation API and what follows it
TranslateAttempt ==
  /\ t_pc = "while"
  /\ attempts < DeeplAttempts
  /\ api_calls' = Append(api_calls, flat)
  /\ sent' = sent \cup {MaskRows(non_en_mask, Len(df))[pos + k - 1] :
                          k \in 1..Len(reconstruct)}
  /\ \E answer \in {"ok", "error", "quota"} :
       /\ res' = answer
       /\ CASE answer = "ok" ->
                 /\ translated_flat' = [k \in 1..Len(flat) |-> Translated(flat[k])]
                 /\ t_pc' = "after"
                 /\ UNCHANGED <<attempts, t_naps, t_exc>>
            [] answer = "quota" ->
                 /\ t_pc' = "raised"
                 /\ t_exc' = "QuotaExceededException"
                 /\ UNCHANGED <<attempts, t_naps, translated_flat>>
            [] answer = "error" ->
                 /\ attempts' = attempts + 1
                 /\ t_naps' = Append(t_naps, DeeplBackoff(attempts'))
                 /\ t_pc' = "while"
                 /\ UNCHANGED <<translated_flat, t_exc>>
  /\ UNCHANGED <<scraper, world, beside_translator, t_env, t_cols, flat, reconstruct,
                 tr_out, pos, batches>>

\* line 86: the loop ends after the last failed attempt
AttemptsUsedUp ==
  /\ t_pc = "while"
  /\ attempts >= DeeplAttempts
  /\ t_pc' = "after"
  /\ UNCHANGED <<scraper, world, beside_translator, t_env, t_cols, t_batch, tr_out,
                 pos, batches, sent, t_exc>>

\* lines 103-112
Rebuild ==
  /\ t_pc = "after"
  /\ translated_flat' = IF translated_flat = <<>> THEN flat ELSE translated_flat
  /\ tr_out' = tr_out \o Rebuilt(translated_flat', reconstruct)
  /\ batches' = Append(batches,
                  [first |-> pos, flat |-> flat, calls |-> Len(api_calls),
                   naps |-> t_naps,
                   fallback |-> translated_flat = <<>>,
                   out |-> Rebuilt(translated_flat', reconstruct)])
  /\ pos' = pos + BatchSize
  /\ t_pc' = "for"
  /\ UNCHANGED <<scraper, world, beside_translator, t_env, t_cols, flat, reconstruct,
                 attempts, api_calls, t_naps, res, sent, t_exc>>

\* lines 113, 136: the translations are written to the rows of the mask
AssignColumn ==
  /\ t_pc = "for"
  /\ pos > Len(texts)
  /\ IF Len(tr_out) # Cardinality(non_en_mask)
     THEN /\ t_pc' = "raised"
          /\ t_exc' = "ValueError"
          /\ UNCHANGED response_text_en
     ELSE /\ t_pc' = "done"
          /\ t_exc' = t_exc
          /\ response_text_en' =
               [k \in 1..Len(df) |->
                  IF k \in non_en_mask THEN tr_out[Rank(non_en_mask, k)]
                  ELSE response_text_en[k]]
  /\ UNCHANGED <<scraper, world, beside_translator, t_env, t_batch, response_lang,
                 non_en_mask, texts, tr_out, pos, batches, sent>>

NextTranslate ==
  \/ DetectColumn
  \/ SelectRows
  \/ CallTranslate
  \/ NextBatch
  \/ TranslateAttempt
  \/ AttemptsUsedUp
  \/ Rebuild
  \/ AssignColumn

SpecTranslate == InitTranslate /\ [][NextTranslate]_vars

(* ---- the narrative extraction loop ------------------------------------ *)
(* ---- (src/code/nlp_based_narrative_extraction.py, lines 26-70) -------- *)
DocIds == {"d1", "d2"}

\* what LLM.invoke does: it raises, or it answers with a content that is
\* the JSON text of an object, of an object that names another document,
\* of a list, or no JSON at all
InvokeErrors == {"APIError", "RateLimitError"}
Contents == {"dict", "dict of another document", "list", "broken"}

\* lines 46-54
DecodeErrorRecord(d) ==
  [document_id |-> d, has_relevant |-> "False",
   overall_explanation |-> "JSON decode error. Raw output saved."]

\* lines 57-64
ExceptionRecord(d) ==
  [document_id |-> d, has_relevant |-> "False", overall_explanation |-> "Exception"]

\* lines 40-43: the model's object with document_id set to the doc_id
ModelRecord(d) ==
  [document_id |-> d, has_relevant |-> "from the model",
   overall_explanation |-> "from the model"]

\* lines 38-64: the result appended for a content
ResultFor(d, content) ==
  CASE content = "broken" -> DecodeErrorRecord(d)
    [] content = "list" -> ExceptionRecord(d)
    [] OTHER -> ModelRecord(d)

InitNarr ==
  /\ ScraperIdle
  /\ LlmIdle
  /\ TranslatorIdle
  /\ PipelineIdle
  /\ JsonScannerIdle
  /\ n_pc = "for"
  /\ doc_ids \in SeqsUpTo(DocIds, MaxDocs)
  /\ n_i = 1
  /\ llm_response = "none"
  /\ results = <<>>
  /\ narratives = NoFile
  /\ n_exc = "none"

\* lines 33-36: the request for the next document, outside any try
NarrInvoke ==
  /\ n_pc = "for"
  /\ n_i <= Len(doc_ids)
  /\ \/ \E e \in InvokeErrors :
          n_exc' = e /\ n_pc' = "raised" /\ llm_response' = llm_response
     \/ \E c \in Contents :
          llm_response' = c /\ n_pc' = "try" /\ n_exc' = n_exc
  /\ UNCHANGED <<scraper, world, beside_narrative, doc_ids, n_i, results, narratives>>

\* lines 38-67: one result is appended for the document
NarrTry ==
  /\ n_pc = "try"
  /\ results' = Append(results, ResultFor(doc_ids[n_i], llm_response))
  /\ n_i' = n_i + 1
  /\ n_pc' = "for"
  /\ UNCHANGED <<scraper, world, beside_narrative, doc_ids, llm_response, narratives,
                 n_exc>>

\* lines 69-70
NarrWrite ==
  /\ n_pc = "for"
  /\ n_i > Len(doc_ids)
  /\ narratives' = [written |-> TRUE, records |-> results]
  /\ n_pc' = "done"
  /\ UNCHANGED <<scraper, world, beside_narrative, doc_ids, n_i, llm_response,
                 results, n_exc>>

NextNarr ==
  \/ NarrInvoke
  \/ NarrTry
  \/ NarrWrite

SpecNarr == InitNarr /\ [][NextNarr]_vars

(* ---- _json_from_model_text (src/code/analyse_coc.py, lines 121-162) -- *)
\* A model text is a sequence of characters: the four brackets, the double
\* quote and the backslash.  None of them is white space or a backtick, so
\* the strip and the code-fence step of lines 122-131 leave such a text as
\* it is.
QUOTE == "\""
BACKSLASH == "\\"
Chars == {"{", "}", "[", "]", QUOTE, BACKSLASH}

\* the end of the JSON string literal whose content starts at position p:
\* the position after its closing quote, or 0
RECURSIVE StringEnd(_, _)
StringEnd(s, p) ==
  IF p > Len(s) THEN 0
  ELSE IF s[p] = QUOTE THEN p + 1
  ELSE IF s[p] = BACKSLASH
    THEN IF p + 1 <= Len(s) /\ s[p + 1] \in {QUOTE, BACKSLASH}
         THEN StringEnd(s, p + 2) ELSE 0
  ELSE StringEnd(s, p + 1)

\* the end of the JSON value that starts at position k: the position after
\* it, or 0.  With these characters a value is the empty object, a string,
\* or an array of no or one value.
RECURSIVE ValueEnd(_, _)
ValueEnd(s, k) ==
  IF k > Len(s) THEN 0
  ELSE IF s[k] = "{"
    THEN IF k + 1 <= Len(s) /\ s[k + 1] = "}" THEN k + 2 ELSE 0
  ELSE IF s[k] = "["
    THEN IF k + 1 <= Len(s) /\ s[k + 1] = "]" THEN k + 2
         ELSE LET e == ValueEnd(s, k + 1)
              IN  IF e # 0 /\ e <= Len(s) /\ s[e] = "]" THEN e + 1 ELSE 0
  ELSE IF s[k] = QUOTE THEN StringEnd(s, k + 1)
  ELSE 0

\* json.loads accepts the text
IsJson(s) == ValueEnd(s, 1) = Len(s) + 1

\* json.loads: the value of the text, named by the text, or the error
Value(t) == [kind |-> "value", text |-> t]
JSONDecodeError == [kind |-> "raise", text |-> <<>>]
json_loads(s) == IF IsJson(s) THEN Value(s) ELSE JSONDecodeError

\* the empty dictionary
EmptyDict == Value(<<"{", "}">>)

\* lines 138-140: the position of the first opening bracket, or n + 1
RECURSIVE FirstOpen(_, _)
FirstOpen(s, i) ==
  IF i > Len(s) \/ s[i] \in {"{", "["} THEN i ELSE FirstOpen(s, i + 1)

\* lines 145-161: the loop from position j on; the position where the depth
\* comes back to zero, or 0 when the loop runs to the end
RECURSIVE ScanLoop(_, _, _, _, _, _, _)
ScanLoop(s, j, start, endc, depth, in_str, esc) ==
  IF j > Len(s) THEN 0
  ELSE LET ch == s[j] IN
    IF in_str THEN
      IF esc THEN ScanLoop(s, j + 1, start, endc, depth, TRUE, FALSE)
      ELSE IF ch = BACKSLASH THEN ScanLoop(s, j + 1, start, endc, depth, TRUE, TRUE)
      ELSE IF ch = QUOTE THEN ScanLoop(s, j + 1, start, endc, depth, FALSE, FALSE)
      ELSE ScanLoop(s, j + 1, start, endc, depth, TRUE, FALSE)
    ELSE
      IF ch = QUOTE THEN ScanLoop(s, j + 1, start, endc, depth, TRUE, esc)
      ELSE IF ch = start THEN ScanLoop(s, j + 1, start, endc, depth + 1, FALSE, esc)
      ELSE IF ch = endc
        THEN IF depth - 1 = 0 THEN j
             ELSE ScanLoop(s, j + 1, start, endc, depth - 1, FALSE, esc)
      ELSE ScanLoop(s, j + 1, start, endc, depth, FALSE, esc)

\* lines 143-144 and the loop: where the scan that starts at i ends
ScanEnd(s, i) ==
  ScanLoop(s, i, s[i], IF s[i] = "{" THEN "}" ELSE "]", 0, FALSE, FALSE)

\* lines 136-162: the except clause
Fallback(s) ==
  LET i == FirstOpen(s, 1) IN
  IF i > Len(s) THEN EmptyDict
  ELSE IF ScanEnd(s, i) = 0 THEN EmptyDict
  ELSE json_loads(SubSeq(s, i, ScanEnd(s, i)))

InitJson ==
  /\ ScraperIdle
  /\ LlmIdle
  /\ TranslatorIdle
  /\ PipelineIdle
  /\ NarrativeIdle
  /\ j_pc = "try"
  /\ j_text \in SeqsUpTo(Chars, MaxText)
  /\ j_result = NoResult

\* lines 133-134: the text is JSON as it stands
LoadsDirect ==
  /\ j_pc = "try"
  /\ IsJson(j_text)
  /\ j_result' = json_loads(j_text)
  /\ j_pc' = "ended"
  /\ UNCHANGED <<scraper, world, beside_json_scanner, j_text>>

\* lines 135-162: it is not, and the except clause scans it
ScanForJson ==
  /\ j_pc = "try"
  /\ ~IsJson(j_text)
  /\ j_result' = Fallback(j_text)
  /\ j_pc' = "ended"
  /\ UNCHANGED <<scraper, world, beside_json_scanner, j_text>>

NextJson ==
  \/ LoadsDirect
  \/ ScanForJson

SpecJson == InitJson /\ [][NextJson]_vars

(* ==== properties ====================================================== *)
Ran(c) == \E k \in 1..Len(calls) : calls[k] = c
LastCall == IF calls = <<>> THEN "none" ELSE calls[Len(calls)]
Atoms(t) == {t[k] : k \in 1..Len(t)} \ WS

\* the words each extraction path can contribute
MinerAtoms == {"m1"}
PypdfAtoms == {"y1"}
OcrAtoms == {"o1", "o2"}
HtmlAtoms(pg) == {Strings(pg.dom)[k][1] : k \in 1..Len(Strings(pg.dom))}
PathAtoms(c, pg) ==
  CASE c = "pdfminer" -> MinerAtoms
    [] c = "pypdf" -> PypdfAtoms
    [] c = "ocr" -> OcrAtoms
    [] c = "html" -> HtmlAtoms(pg)
    [] OTHER -> {}

\* C1 (as stated): once the OCR stage has run, its result is the resolver's
\* output even when it is empty, and no HTML extraction path runs after it.
C1_OcrResultIsFinal ==
  (pc = "resolved" /\ Ran("ocr")) => (~Ran("html") /\ result = pdf_text)

\* C1 (amended): once the OCR stage has run and returned, a non-empty OCR
\* result is the resolver's output and no HTML extraction path runs; an empty
\* OCR result is not final: the resolver runs the HTML extraction on the page
\* markup and returns that text.
C1_OcrResultFinalUnlessEmpty ==
  (pc = "resolved" /\ Ran("ocr")) =>
    IF pdf_text # <<>>
      THEN ~Ran("html") /\ result = pdf_text
      ELSE LastCall = "html" /\ result = HtmlText(page)

C1_Witness ==
  /\ pc = "resolved"
  /\ Ran("ocr")
  /\ pdf_text = <<>>
  /\ LastCall = "html"
  /\ result # <<>>

\* C2: the text the resolver returns comes from exactly one path (pdfminer
\* text, pypdf text, OCR text or HTML extraction): all its words are words of
\* the path that ran last, and when a PDF path produced it no HTML extraction
\* ran and no word of the page markup is in it.
C2_OnePathOnly ==
  pc = "resolved" =>
    /\ LastCall \in {"pdfminer", "pypdf", "ocr", "html"}
    /\ Atoms(result) \subseteq PathAtoms(LastCall, page)
    /\ LastCall # "html" =>
         /\ ~Ran("html")
         /\ result # <<>>
         /\ Atoms(result) \cap HtmlAtoms(page) = {}

C2_Witness ==
  /\ pc = "resolved"
  /\ LastCall = "ocr"
  /\ Atoms(result) = OcrAtoms
  /\ HtmlText(page) # <<>>

\* C3 (as stated): when the attachment download ends with a non-success HTTP
\* status, the resolver falls back to HTML extraction of the page markup and
\* returns that text.
C3_StatusErrorFallsBackToHtml ==
  http = "status_error" =>
    (pc = "html" \/ (LastCall = "html" /\ result = HtmlText(page)))

\* C3 (amended): when the attachment download ends with a non-success HTTP
\* status, the resolver does not fall back: the HTTP error leaves the resolver
\* towards its caller, no HTML extraction path runs and no text is returned.
C3_StatusErrorLeavesResolver ==
  http = "status_error" =>
    /\ pc = "except"
    /\ exc = "HTTPError"
    /\ LastCall = "http_get"
    /\ result = <<>>

C3_Witness ==
  /\ http = "status_error"
  /\ pc = "except"
  /\ HtmlText(page) # <<>>

\* C4: a failed attachment fetch (non-success status or timeout) is raised
\* out of the resolver to the row loop and is fatal for that row only: the
\* loop appends no record for the row, prints the error for it, and is back
\* at the loop head, where the next row is read.
FetchFailed == http \in {"status_error", "timeout"}

C4_FetchFailureSkipsOnlyThatRow ==
  /\ [](FetchFailed =>
          /\ pc = "except"
          /\ exc = IF http = "timeout" THEN "Timeout" ELSE "HTTPError"
          /\ \A k \in 1..Len(wrote) : wrote[k] # Len(rows))
  /\ [][pc = "except" =>
          /\ out' = out
          /\ wrote' = wrote
          /\ errors' = Append(errors, [row |-> Len(rows), exc |-> exc])
          /\ pc' = "loop"]_vars
  /\ []((pc = "loop" /\ Len(rows) < MaxRows) => ENABLED NextRow)

C4_Witness ==
  /\ Len(rows) = 2
  /\ pc = "enriched"
  /\ errors = <<[row |-> 1, exc |-> "Timeout"]>>
  /\ wrote = <<>>

\* C5 (as stated): an exception thrown by any extraction stage of
\* download_pdf_text (pdfminer, pypdf, rasterization/OCR) is caught inside the
\* resolver and counts as an empty result of the stage: the chain goes on and
\* the exception never reaches the caller.
C5_StageExceptionsAreCaught ==
  got.raised => pc \in {"pypdf", "ocr", "pdf_return"}

\* C6 (as stated): for a page with no attachment, and for a page whose
\* attachment gives an empty OCR result, the resolver raises nothing,
\* whatever the markup (page-data JSON, container, heading, paragraphs).
ResolverExceptions == {"AttributeError", "HTTPError", "Timeout", "OCRError"}

NoAttachment(pg) ==
  /\ \A k \in 1..Len(Links(pg)) : ~HasPdf(Lower(Strip(Links(pg)[k].href)))
  /\ \A k \in 1..Len(RawPairs(pg)) : ~HasPdf(Lower(RawPairs(pg)[k].v.s))

EmptyOcr == got.by = "ocr" /\ ~got.raised /\ Strip(Join(NLNL, got.pages)) = <<>>

C6_ResolverNeverRaises ==
  (Ran("find_first_pdf_url") /\ (NoAttachment(page) \/ EmptyOcr)) =>
    ~(pc = "except" /\ exc \in ResolverExceptions)

\* the URL find_first_pdf_url gives for the k-th a[href]/link[href] element
LinkUrl(pg, k) == urljoin(url, Strip(Links(pg)[k].href))
First(S) == CHOOSE k \in S : \A m \in S : k <= m
FoundPdf == Ran("find_first_pdf_url")

\* C7 (as stated): on a page with both a generic anchor to a .pdf and a
\* "download attachment" anchor (a.button) to a .pdf, find_first_pdf_url
\* returns the URL of the a.button anchor, whichever comes first.
ButtonPdfLinks(pg) ==
  {k \in 1..Len(Links(pg)) :
     /\ Links(pg)[k].tag = "a"
     /\ "button" \in Links(pg)[k].cls
     /\ EndsPdf(Lower(Strip(Links(pg)[k].href)))}
GenericPdfLinks(pg) ==
  {k \in 1..Len(Links(pg)) :
     /\ Links(pg)[k].tag = "a"
     /\ "button" \notin Links(pg)[k].cls
     /\ EndsPdf(Lower(Strip(Links(pg)[k].href)))}

C7_ButtonAnchorPreferred ==
  (FoundPdf /\ ButtonPdfLinks(page) # {} /\ GenericPdfLinks(page) # {}) =>
    pdf_url = LinkUrl(page, First(ButtonPdfLinks(page)))

\* C8 (as stated): the anchor scan selects an element only if its target
\* ends in .pdf (case-insensitive); an href that only contains ".pdf" is
\* never returned by it.
PdfLinks(pg) == {k \in 1..Len(Links(pg)) : HasPdf(Lower(Strip(Links(pg)[k].href)))}

C8_AnchorTargetEndsInPdf ==
  (FoundPdf /\ PdfLinks(page) # {}) =>
    \E k \in 1..Len(Links(page)) :
      /\ EndsPdf(Lower(Strip(Links(page)[k].href)))
      /\ pdf_url = LinkUrl(page, k)

\* C8 (amended): the anchor scan selects an element only if its target
\* contains ".pdf" (case-insensitive) anywhere, not necessarily at its end:
\* the first a[href]/link[href] element in document order whose stripped href
\* contains ".pdf" is the one returned, and an element whose href does not
\* contain it is never returned.
C8_AnchorTargetContainsPdf ==
  FoundPdf =>
    /\ PdfLinks(page) # {} => pdf_url = LinkUrl(page, First(PdfLinks(page)))
    /\ \A k \in 1..Len(Links(page)) :
         pdf_url = LinkUrl(page, k) => k \in PdfLinks(page)

C8_Witness ==
  /\ FoundPdf
  /\ PdfLinks(page) # {}
  /\ ~EndsPdf(Lower(Strip(Links(page)[First(PdfLinks(page))].href)))
  /\ pdf_url = LinkUrl(page, First(PdfLinks(page)))

\* C9 (as stated): find_first_pdf_url consults anchor/link hrefs, then the
\* known keys of the page-data JSON, then the regular expression over the raw
\* markup, a later source only when every earlier one found no PDF target; the
\* first match is returned as an absolute URL, and None exactly when all
\* three find nothing.
JsonTargets(pg) ==
  {n \in 1..Len(JsonKeys) :
     /\ IsDict(pg.data)
     /\ DictGet(pg.data, JsonKeys[n]).t = "str"
     /\ HasPdf(Lower(DictGet(pg.data, JsonKeys[n]).s))}
RegexTargets(pg) == {k \in 1..Len(RawPairs(pg)) : RegexMatches(RawPairs(pg)[k])}

ExpectedPdfUrl(pg) ==
  IF PdfLinks(pg) # {} THEN LinkUrl(pg, First(PdfLinks(pg)))
  ELSE IF JsonTargets(pg) # {}
    THEN urljoin(url, DictGet(pg.data, JsonKeys[First(JsonTargets(pg))]).s)
  ELSE IF RegexTargets(pg) # {}
    THEN urljoin(url, RawPairs(pg)[First(RegexTargets(pg))].v.s)
  ELSE <<>>

C9_ThreeSourcesInOrder ==
  Ran("find_first_pdf_url") =>
    /\ ~(pc = "except" /\ exc = "AttributeError")
    /\ pdf_url = ExpectedPdfUrl(page)
    /\ pdf_url # <<>> => IsAbsolute(pdf_url)

\* C10: download_pdf_text runs pdfminer, then pypdf, then OCR, each at most
\* once and each only if the stage before it raised or gave no text (empty
\* once surrounding whitespace is stripped, as the code tests it); the first
\* stage that gives text wins: its stripped text is returned and no later
\* stage is invoked.
StageNames == {"pdfminer", "pypdf", "ocr"}
IsStageName(c) == c \in StageNames
StagesRun == SelectSeq(calls, IsStageName)
RawText(g) ==
  CASE g.by = "pdfminer" -> g.text
    [] g.by = "pypdf" -> Join(NL, g.pages)
    [] OTHER -> Join(NLNL, g.pages)
GaveNoText(g) == g.raised \/ \A k \in 1..Len(RawText(g)) : RawText(g)[k] \in WS

\* t is s without its leading and trailing whitespace
IsStripOf(t, s) ==
  \E i, j \in 1..Len(s) :
    /\ i <= j
    /\ t = SubSeq(s, i, j)
    /\ s[i] \notin WS /\ s[j] \notin WS
    /\ \A k \in 1..Len(s) : (k < i \/ k > j) => s[k] \in WS

C10_FirstSuccessWins ==
  /\ StagesRun = SubSeq(<<"pdfminer", "pypdf", "ocr">>, 1, Len(StagesRun))
  /\ pc = "pypdf" => (got.by = "pdfminer" /\ GaveNoText(got))
  /\ pc = "ocr" => (got.by = "pypdf" /\ GaveNoText(got))
  /\ (got.by \in {"pdfminer", "pypdf"} /\ ~GaveNoText(got)) =>
       /\ pc = "pdf_return"
       /\ LastCall = got.by
       /\ IsStripOf(pdf_text, RawText(got))
  /\ (pc = "resolved" /\ LastCall \in {"pdfminer", "pypdf"}) => result = pdf_text

C10_Witness ==
  /\ pc = "pdf_return"
  /\ got.by = "pdfminer"
  /\ got.text = <<"<sp>", "m1", "<nl>">>
  /\ pdf_text = <<"m1">>
  /\ StagesRun = <<"pdfminer">>

\* the page texts in page order with a blank line between two of them
RECURSIVE BlankLineJoined(_)
BlankLineJoined(ps) ==
  IF ps = <<>> THEN <<>>
  ELSE IF Len(ps) = 1 THEN ps[1]
  ELSE ps[1] \o <<"<nl>", "<nl>">> \o BlankLineJoined(Tail(ps))

OcrGaveText ==
  /\ got.by = "ocr"
  /\ ~got.raised
  /\ \E k \in 1..Len(got.pages) : Atoms(got.pages[k]) # {}

\* C11: when neither text-layer reader got text and the OCR of the pages gives
\* text, download_pdf_text returns the per-page OCR texts in page order with a
\* blank line between them (the whole stripped), and the resolver returns
\* exactly that text: no HTML extraction runs and no word of the markup is in
\* the result.
C11_OcrTextReturned ==
  /\ OcrGaveText =>
       /\ pc = "pdf_return"
       /\ StagesRun = <<"pdfminer", "pypdf", "ocr">>
       /\ IsStripOf(pdf_text, BlankLineJoined(got.pages))
  /\ (pc = "resolved" /\ LastCall = "ocr") =>
       /\ result = pdf_text
       /\ Atoms(result) # {}
       /\ Atoms(result) \subseteq OcrAtoms
       /\ Atoms(result) \cap HtmlAtoms(page) = {}
       /\ ~Ran("html")

C11_Witness ==
  /\ pc = "pdf_return"
  /\ got.by = "ocr"
  /\ got.pages = <<<<"o1", "<ff>">>, <<"o2">>>>
  /\ pdf_text = <<"o1", "<ff>", "<nl>", "<nl>", "o2">>
  /\ HtmlText(page) # <<>>

(* ---- the HTML fallback ---- *)
IsWord(a) == a \notin WS
Words(t) == SelectSeq(t, IsWord)

\* the element opens a region of the kind: a semantic response container, or
\* a paragraph
Opens(n, kind) == IF kind = "container" THEN IsHtmlBlock(n) ELSE n.tag = "p"

RECURSIVE WordsUnder(_, _, _)
\* the non-blank strings of the forest ns that lie inside an element of the
\* kind, in document order
WordsUnder(ns, kind, inside) ==
  IF ns = <<>> THEN <<>>
  ELSE LET n == ns[1]
           here == IF IsString(n)
                     THEN IF inside /\ n.s \notin WS THEN <<n.s>> ELSE <<>>
                     ELSE WordsUnder(n.kids, kind, inside \/ Opens(n, kind))
       IN  here \o WordsUnder(Tail(ns), kind, inside)

\* the resolver found no attachment and returned what the HTML fallback gave
HtmlOnly == pc = "resolved" /\ LastCall = "html" /\ pdf_url = <<>> /\ ~Ran("http_get")

\* C12: on a page without attachment that has a div.block.html-block holding
\* text, the resolver takes the container branch (not the scan after the h1,
\* not the all-paragraphs branch) and its result is made of exactly the
\* strings inside the containers, in document order: no string of the heading,
\* of a sibling paragraph or of any other element outside them is in it.
C12_ContainerTextOnly ==
  (HtmlOnly /\ WordsUnder(page.dom, "container", FALSE) # <<>>) =>
    /\ branch = "blocks"
    /\ Words(result) = WordsUnder(page.dom, "container", FALSE)

C12_Witness ==
  /\ HtmlOnly
  /\ page.dom = DomBlock
  /\ result = <<"w1", "<nl>", "w2", "<nl>", "<nl>", "w4">>

\* the siblings after the h1, and the first of them that is an element whose
\* text holds a boundary marker (0: none)
AfterH1(pg) == FindH1(pg.dom).sibs
MarkerAt(pg) ==
  LET at == {k \in 1..Len(AfterH1(pg)) :
               ~IsString(AfterH1(pg)[k]) /\ StopSearch(AfterH1(pg)[k])}
  IN  IF at = {} THEN 0 ELSE First(at)
BeforeMarker(pg) == SubSeq(AfterH1(pg), 1, MarkerAt(pg) - 1)

\* C13 (as stated): on a page without attachment and without container whose
\* h1 is followed by sibling p elements and then by a sibling holding a
\* boundary marker, the resolver returns exactly the texts of the paragraphs
\* between the heading and the marker, in document order, and nothing of the
\* marker or of what follows it.
C13_ParagraphsUntilMarker ==
  ( /\ HtmlOnly
    /\ WordsUnder(page.dom, "container", FALSE) = <<>>
    /\ FindH1(page.dom).found
    /\ MarkerAt(page) > 1
    /\ \E k \in 1..Len(BeforeMarker(page)) : BeforeMarker(page)[k].tag = "p" ) =>
    Words(result) = WordsUnder(BeforeMarker(page), "p", FALSE)

NoH1Element(pg) == \A k \in 1..Len(Flatten(pg.dom)) : Flatten(pg.dom)[k].tag # "h1"
ParagraphCount(pg) == Cardinality({k \in 1..Len(Flatten(pg.dom)) : Flatten(pg.dom)[k].tag = "p"})
IsNewline(a) == a = "<nl>"

\* C14: on a page without attachment, without container and without any h1,
\* the resolver takes the all-paragraphs branch and returns the texts of all
\* p elements of the page, nested ones included, in document order, one
\* blank line between the texts of two consecutive p elements.
C14_AllParagraphs ==
  ( /\ HtmlOnly
    /\ WordsUnder(page.dom, "container", FALSE) = <<>>
    /\ NoH1Element(page) ) =>
    /\ branch = "all_p"
    /\ Words(result) = WordsUnder(page.dom, "p", FALSE)
    /\ ParagraphCount(page) = 0 => result = <<>>
    /\ ParagraphCount(page) > 0 =>
         Len(SelectSeq(result, IsNewline)) = 2 * (ParagraphCount(page) - 1)

C14_Witness ==
  /\ HtmlOnly
  /\ page.dom = DomNoH1
  /\ result = <<"w1", "<nl>", "<nl>", "<nl>", "<nl>", "w2">>

(* ---- the row loop ---- *)
\* C15 (as stated): the browser session a row creates is torn down before
\* the row finishes, on every path: between two rows, and at the end, no
\* session is open.
C15_SessionsTornDown == pc \in {"loop", "done"} => sessions = 0

\* row k was written, or skipped for want of a URL, or failed
RowWritten(k) == \E j \in 1..Len(wrote) : wrote[j] = k
RowErrored(k) == \E j \in 1..Len(errors) : errors[j].row = k
RowFinished(k) == RowWritten(k) \/ RowErrored(k) \/ k \in slept
InProgress == pc \notin {"loop", "done"}

\* C16: rows are processed strictly one after another.  Every row but the
\* last one read has finished (written, skipped or failed); while a row is in
\* progress it is the last one read and has not finished; between two rows
\* nothing of a row is left: no page, no attachment URL, no text, no call.
C16_OneRowAtATime ==
  /\ \A k \in 1..(Len(rows) - 1) : RowFinished(k)
  /\ InProgress => (rows # <<>> /\ ~RowFinished(Len(rows)))
  /\ ~InProgress =>
       /\ rows # <<>> => RowFinished(Len(rows))
       /\ page = NoPage /\ pdf_url = <<>> /\ pdf_text = <<>> /\ result = <<>>
       /\ http = "none" /\ calls = <<>> /\ got = Nothing
  /\ \A k \in 1..Len(rows) : ~(RowWritten(k) /\ RowErrored(k))
  /\ Len(wrote) = Len(out)

C16_Witness ==
  /\ Len(rows) = 2
  /\ pc = "http_get"
  /\ RowWritten(1)

\* C17 (as stated): before the first request for row i+1 one polite pause
\* was taken after row i, whether row i was written, skipped or failed.
C17_SleepBetweenRows ==
  (pc = "get_resp" /\ Len(rows) > 1) => (Len(rows) - 1) \in slept

Times(c) == Cardinality({k \in 1..Len(calls) : calls[k] = c})

\* C18: nothing is retried.  For one row the attachment URL is requested at
\* most once and pdfminer, pypdf and the OCR are each invoked at most once,
\* also after a stage raised or gave no text; enrich_row_from_url is entered
\* exactly once for a row and the row ends up written or failed at most once.
C18_NothingRetried ==
  /\ \A c \in {"find_first_pdf_url", "http_get", "pdfminer", "pypdf", "ocr", "html"} :
       Times(c) <= 1
  /\ tries <= 1
  /\ (rows # <<>> /\ pc # "enrich") => tries = 1
  /\ \A i, j \in 1..Len(wrote) : wrote[i] = wrote[j] => i = j
  /\ \A i, j \in 1..Len(errors) : errors[i].row = errors[j].row => i = j

C18_Witness ==
  /\ pc = "ocr"
  /\ got = Raised("pypdf")
  /\ calls = <<"find_first_pdf_url", "http_get", "pdfminer", "pypdf">>
  /\ tries = 1
  /\ RowErrored(1)

(* ---- two calls with the same answers ---- *)
\* the collaborators the resolver invokes under the fixed answers, in order
WorldPath ==
  LET r == find_first_pdf_url(world.page, url)
  IN  <<"find_first_pdf_url">> \o
      (IF r.kind = "raise" THEN <<>>
       ELSE IF r.kind # "url" \/ r.url = <<>> THEN <<"html">>
       ELSE <<"http_get">> \o
         (IF world.http # "ok" THEN <<>>
          ELSE <<"pdfminer">> \o
            (IF ~GaveNoText(world.miner) THEN <<>>
             ELSE <<"pypdf">> \o
               (IF ~GaveNoText(world.pypdf) THEN <<>>
                ELSE <<"ocr">> \o
                  (IF world.ocr.raised THEN <<>>
                   ELSE IF GaveNoText(world.ocr) THEN <<"html">>
                   ELSE <<>>)))))

AttemptFailed(a) ==
  a.kind = "error" \/ (a.kind = "tool_call" /\ a.text = "broken")

\* C20: call_llm is a fixed-count retry loop with linear backoff.  It makes at
\* most MAX_RETRIES requests; the k-th sleep lasts RATE_LIMIT_SLEEP * k and
\* follows the k-th failed attempt, and there are fewer than MAX_RETRIES
\* sleeps; it returns at the first attempt that does not raise (every request
\* before it failed and was followed by its sleep); after the
\* MAX_RETRIES-th failed attempt it returns the error record (confidence 0.0,
\* "not evident (LLM error)") with no sleep and no request after that failure.
C20_RetryWithLinearBackoff ==
  /\ tried <= MAX_RETRIES
  /\ \A k \in 1..Len(naps) : naps[k] = RATE_LIMIT_SLEEP * k
  /\ naps # <<>> => Len(naps) < MAX_RETRIES
  /\ llm_pc \in {"for", "try"} => (tried = Len(naps) /\ ret = NoReturn)
  /\ llm_pc = "except" =>
       (AttemptFailed(resp) /\ tried = Len(naps) + 1 /\ ret = NoReturn)
  /\ (llm_pc = "returned" /\ tried > 0) =>
       /\ tried = Len(naps) + 1
       /\ AttemptFailed(resp) <=> ret = ErrorRecord
       /\ ret = ErrorRecord => tried = MAX_RETRIES
       /\ ret # ReturnsNone
  /\ (llm_pc = "returned" /\ MAX_RETRIES > 0) => tried > 0

C20_Witness ==
  /\ llm_pc = "returned"
  /\ MAX_RETRIES = 3
  /\ RATE_LIMIT_SLEEP = 2
  /\ tried = 3
  /\ naps = <<2, 4>>
  /\ ret = ErrorRecord

\* C29 (as stated): whenever call_llm has returned, for every value of
\* MAX_RETRIES, what it returned is a dictionary, never None and never
\* another JSON value.
C29_AlwaysReturnsRecord == llm_pc = "returned" => IsRecord(ret)

(* ---- main of the LLM pipeline ---- *)
\* the rows --limit lets through
ProcessedRows ==
  IF limit > 0 THEN SubSeq(loaded, 1, IF limit < Len(loaded) THEN limit ELSE Len(loaded))
  ELSE loaded

\* the record carries the fields of the row
Carries(rec, r) ==
  /\ DOMAIN r \subseteq DOMAIN rec
  /\ \A c \in DOMAIN r \ ExtractionFields : rec[c] = r[c]

\* the output file holds one record per processed row, in input order
OneRecordPerRow ==
  /\ csv.written
  /\ Len(csv.records) = Len(ProcessedRows)
  /\ \A k \in 1..Len(ProcessedRows) : Carries(csv.records[k], ProcessedRows[k])

\* C23 (as stated): when main has ended, the output file holds exactly one
\* record per row that --limit lets through (all rows for 0, the first n
\* for n > 0), in input order, each with the fields of its row, also for
\* rows whose request failed at every attempt.
C23_OneRecordPerProcessedRow == m_pc \in {"done", "raised"} => OneRecordPerRow

(* ---- the narrative extraction loop ---- *)
\* C26 (as stated): when the script has ended, the file holds one result per
\* input document, in input order, each with the document's id; a failure
\* for one document, an API error included, gives a placeholder and does
\* not end the loop.
C26_OneResultPerDocument ==
  n_pc \in {"done", "raised"} =>
    /\ narratives.written
    /\ Len(narratives.records) = Len(doc_ids)
    /\ \A k \in 1..Len(doc_ids) : narratives.records[k].document_id = doc_ids[k]

(* ---- _json_from_model_text ---- *)
\* C30 (as stated): for a text that is not JSON as it stands the function
\* returns: the empty dictionary when the text has no opening bracket or
\* the first opening bracket is never closed, and otherwise the value of
\* the span from the first opening bracket to the first position where the
\* depth, counted outside string literals, is back at zero.
C30_ReturnsFirstBalanced ==
  (j_pc = "ended" /\ ~IsJson(j_text)) =>
    LET i == FirstOpen(j_text, 1) IN
    /\ j_result.kind = "value"
    /\ i > Len(j_text) => j_result = EmptyDict
    /\ (i <= Len(j_text) /\ ScanEnd(j_text, i) = 0) => j_result = EmptyDict
    /\ (i <= Len(j_text) /\ ScanEnd(j_text, i) # 0) =>
         j_result.text = SubSeq(j_text, i, ScanEnd(j_text, i))

(* ---- enrich_row_from_url and the output file ---- *)
HasUrl(r) == Strip(RowGet(r, "URL")) # <<>>

TextFields == {"story_text", "response_text"}

\* row k has left the head of enrich_row_from_url
Entered(k) == k < Len(rows) \/ pc # "enrich"

\* C22: the record written for a row with a URL has the fields of the row
\* and the two text fields, the row's fields with the row's values, and the
\* row is as the reader gave it; a row without a URL opens no browser and
\* makes no request, and nothing is returned for it: it is neither written
\* nor failed.
C22_RowKeptRecordExtended ==
  /\ \A j \in 1..Len(out) :
       /\ wrote[j] \in 1..Len(rows)
       /\ HasUrl(rows[wrote[j]])
       /\ DOMAIN out[j] = DOMAIN rows[wrote[j]] \cup TextFields
       /\ \A c \in DOMAIN rows[wrote[j]] : out[j][c] = rows[wrote[j]][c]
  /\ \A k \in 1..Len(rows) :
       /\ rows[k] \in RowFixtures
       /\ ~HasUrl(rows[k]) => ~RowWritten(k) /\ ~RowErrored(k)
  /\ sessions = Cardinality({k \in 1..Len(rows) : HasUrl(rows[k]) /\ Entered(k)})
  /\ (rows # <<>> /\ ~HasUrl(row)) =>
       /\ pc \in {"enrich", "loop", "done"}
       /\ calls = <<>> /\ http = "none" /\ page = NoPage

\* one row was written and a row without URL has just been skipped
C22_Witness ==
  /\ Len(rows) = 2
  /\ Len(out) = 1
  /\ wrote = <<1>>
  /\ out[1].Company = <<"acme">>
  /\ ~HasUrl(rows[2])
  /\ pc = "loop"
  /\ sessions = 1

\* row k is behind the loop: the body has run to its end for it
Processed(k) == k < Len(rows) \/ pc \in {"loop", "done"}

\* the lines of the file are those of the rows that were enriched
LinesOfProcessedRows ==
  /\ Len(wrote) = Len(out)
  /\ \A i, j \in 1..Len(wrote) : i < j => wrote[i] < wrote[j]
  /\ \A k \in 1..Len(rows) :
       Processed(k) => (RowWritten(k) <=> (HasUrl(rows[k]) /\ ~RowErrored(k)))
  /\ \A k \in 1..Len(rows) : ~Processed(k) => ~RowWritten(k)
  /\ \A j \in 1..Len(out) :
       out[j].URL = rows[wrote[j]].URL /\ out[j].Company = rows[wrote[j]].Company

\* a step adds at most one line at the end of the file and changes no
\* line that is there
AppendOnly ==
  /\ Len(out') \in {Len(out), Len(out) + 1}
  /\ SubSeq(out', 1, Len(out)) = out

\* C28: after any prefix of the rows was processed the file holds one line
\* for each row of the prefix that has a URL and raised no exception, in the
\* order of the rows, and no other line; no step rewrites or removes a
\* line.
C28_AppendOnlyOneLinePerRow == [][AppendOnly /\ LinesOfProcessedRows']_vars

\* two rows behind the loop: the first written, the second failed
C28_Witness ==
  /\ Len(rows) = 2
  /\ pc = "loop"
  /\ RowWritten(1)
  /\ RowErrored(2)
  /\ Len(out) = 1

(* ---- the translation script ---- *)
\* C21 (as stated): once the translation of a text was obtained the text is
\* in the cache under its hash, and a text whose translation was obtained for
\* an earlier batch is not handed to the translation API again.
C21_TranslationsCached ==
  /\ (t_pc = "after" /\ res = "ok") =>
       \A k \in 1..Len(flat) : cache_get(cache, flat[k]) = translated_flat[k]
  /\ \A i, j \in 1..Len(batches) :
       (i < j /\ ~batches[i].fallback) =>
         \A k \in 1..Len(batches[i].flat), m \in 1..Len(batches[j].flat) :
           batches[i].flat[k] # batches[j].flat[m]

\* the blank rows of the frame, and the rows detected as English
IsBlankRow(k) == Strip(AsStr(df[k])) = <<>>

IsEnglishRow(k) == k \in 1..Len(response_lang) /\ response_lang[k] = "en"

\* C24 (as stated): the text of a row that is blank or was detected as
\* English is never handed to the translation API, and the row's
\* response_text_en is its response_text.
C24_OnlyNonEnglishSent ==
  \A k \in 1..Len(df) :
    (IsBlankRow(k) \/ IsEnglishRow(k)) =>
      /\ k \notin sent
      /\ Len(response_text_en) = Len(df) => response_text_en[k] = AsStr(df[k])

\* the texts of the batch that starts at position p, each split into its
\* chunks and joined again without translation
Untranslated(p) ==
  [k \in 1..Len(BatchAt(texts, p)) |->
     Join(<<"<sp>">>, _chunk_long_text(BatchAt(texts, p)[k]))]

HasSplit(text) == \E k \in 1..Len(text) : text[k] = SplitAtom

\* C25: a batch is handed to the translation API at most 4 times; the k-th
\* failed attempt is followed by a wait of k times 1.5 seconds (3 half
\* seconds); an exceeded quota ends the call at once with that exception;
\* a batch falls back exactly when 4 attempts failed, its texts then come
\* back untranslated (a text that was not split comes back as it was), and
\* the batches follow one another, a fallen-back one included.
C25_RetryThenFallback ==
  /\ Len(api_calls) <= 4
  /\ Len(t_naps) = attempts
  /\ \A k \in 1..Len(t_naps) : t_naps[k] = 3 * k
  /\ Len(api_calls) = attempts + (IF res \in {"ok", "quota"} THEN 1 ELSE 0)
  /\ res = "quota" <=> t_exc = "QuotaExceededException"
  /\ res = "quota" => t_pc = "raised"
  /\ \A i \in 1..Len(batches) :
       LET b == batches[i] IN
       /\ b.first = 1 + (i - 1) * 10
       /\ b.calls <= 4
       /\ b.fallback <=> Len(b.naps) = 4
       /\ b.fallback =>
            /\ b.calls = 4
            /\ b.out = Untranslated(b.first)
            /\ \A k \in 1..Len(b.out) :
                 ~HasSplit(texts[b.first + k - 1]) => b.out[k] = texts[b.first + k - 1]
       /\ b.fallback /\ b.first + 10 <= Len(texts) =>
            \/ i < Len(batches)
            \/ t_pc \in {"for", "while", "after", "raised"} /\ pos = b.first + 10
  /\ t_pc = "done" => Len(batches) * 10 >= Len(texts)

\* the first batch fell back after four failures, the second one was
\* translated at its third attempt
C25_Witness ==
  /\ Len(batches) = 2
  /\ batches[1].fallback
  /\ batches[1].naps = <<3, 6, 9, 12>>
  /\ ~batches[2].fallback
  /\ batches[2].calls = 3

\* C27 (as stated): a call of translate_deepl ends with a list (or with one
\* of the two errors it raises on purpose), and the list it returns has one
\* element per input text, the i-th made of the chunks of the i-th text, in
\* order, translated or not.
C27_OneResultPerText ==
  /\ t_pc = "raised" => t_exc \in {"AssertionError", "QuotaExceededException"}
  /\ t_pc = "done" =>
       /\ Len(tr_out) = Len(texts)
       /\ \A k \in 1..Len(texts) :
            LET cs == _chunk_long_text(texts[k]) IN
            \/ tr_out[k] = Join(<<"<sp>">>, cs)
            \/ tr_out[k] = Join(<<"<sp>">>, [m \in 1..Len(cs) |-> Translated(cs[m])])
====
